---- MODULE Spec2Model ----
(***************************************************************************)
(* A model of the netscan scanning pipeline (rust_backend).                *)
(*                                                                         *)
(* Spec / FairSpec : the concurrent stages, one run of one stage per       *)
(*   behaviour: ping_sweep, tcp_scan, udp_scan, service_scan and the       *)
(*   driver's fingerprint stage (join_all over fingerprint_host).          *)
(* SpecDetect      : one call of detect_service, probe by probe.           *)
(* SpecParse       : one call of ping_sweep(subnet) up to the end of its   *)
(*   spawn loop, with parse_subnet computed on the characters.            *)
(* SpecPorts       : parse_ports on a --ports string, and                  *)
(*   format_port_ranges on a port list followed by parse_ports.           *)
(* SpecMain        : one run of the driver (main), from the command line   *)
(*   to the exit status, with ping_sweep's entry as in SpecParse.          *)
(* SpecLib         : one call of a library function on its own:            *)
(*   fingerprint_host, fingerprint_mac::fingerprint, detect_ssh ..         *)
(*   detect_dns, suggest_modules, append_summary_to_csv.                   *)
(* FairSpecLib     : SpecLib with the calls' own steps and the clock       *)
(*   weakly fair; the arrival of a frame at rx.next() is not.              *)
(***************************************************************************)
EXTENDS Integers, Sequences, FiniteSets, TLC

VARIABLES
    stage,      \* which stage this behaviour runs
    pc,         \* position of the stage's own coroutine
    permits,    \* permits available in the stage's semaphore
    items,      \* work list: addresses (ping), ports (tcp/udp/service), hosts (fingerprint)
    hosts,      \* tcp/udp: the live_hosts argument
    hostIdx,    \* tcp/udp: index of the host scan_ports is running for
    tasks,      \* the tasks (futures) created so far, in creation order
    joined,     \* how many task handles the join loop has awaited
    result,     \* the result under construction (PingSweepResult, per-host scan result, services)
    final,      \* tcp_scan / udp_scan: final_result
    dpc,        \* detect_service: position
    port,       \* detect_service: the port argument
    protocols,  \* detect_service: the protocols argument
    idx,        \* detect_service: index of the next protocol of the for loop
    errors,     \* detect_service: the errors vector
    protocol_failures, \* detect_service: the protocol_failures vector
    attempted,  \* detect_service: protocols whose probe was entered, in order
    io,         \* detect_service: network events of the probe run last
    generic,    \* detect_service: number of generic banner reads performed
    ret,        \* detect_service: the returned ServiceDetectionResult
    spc,        \* ping_sweep(subnet): position of the call
    subnet,     \* ping_sweep(subnet): the argument, as characters
    build,      \* whether the build has overflow checks ("debug") or wraps ("release")
    parsed,     \* what parse_subnet returned
    sent,       \* how many probes ping_sweep has spawned for the parsed addresses
    call,       \* port lists: the function called first (parse_ports or format_port_ranges)
    fpc,        \* port lists: position
    ports_str,  \* port lists: the string parsed by parse_ports / written by format_port_ranges
    ports,      \* port lists: the argument of format_port_ranges
    parsed_ports, \* port lists: what parse_ports returned
    user_ports_arg, \* service_scan: the user_ports argument
    cli,        \* main: the parsed command line
    mpc,        \* main: position
    found,      \* main: the live hosts ping_sweep returned
    live_hosts, \* main: the live hosts the stages are run for
    probed,     \* main: the addresses each later stage has been run for
    scanned,    \* driver: the (stage, host, port) triples handed to tcp_scan / udp_scan
    exit_code,  \* main: the exit status of the process, -1 while it runs
    lpc,        \* library call: position
    lcall,      \* library call: the function called and its argument
    lret,       \* library call: the value returned
    frames,     \* fingerprint_mac: what rx.next() has returned so far
    elapsed     \* fingerprint_mac: whether the second after the ARP request has passed

stageVars == <<stage, pc, permits, items, hosts, hostIdx, tasks, joined, result, final>>
detectVars == <<dpc, port, protocols, idx, errors, protocol_failures, attempted, io, generic, ret>>
parseVars == <<spc, subnet, build, parsed, sent>>
portVars == <<call, fpc, ports_str, ports, parsed_ports>>
mainVars == <<cli, mpc, found, live_hosts, probed, scanned, exit_code>>
libVars == <<lpc, lcall, lret, frames, elapsed>>
callVars == <<user_ports_arg, mainVars, libVars>>
pureVars == <<parseVars, portVars, callVars>>
vars == <<stageVars, detectVars, pureVars>>

(***************************************************************************)
(* Bounds of the model.                                                    *)
(***************************************************************************)
\* Semaphore capacity used in the model; the code's capacities are 64 and 100.
Permits == 2
\* Largest number of ports in a scanned port range, and of probes in one scan.
MaxPorts == 3
\* Longest protocol list handed to detect_service.
MaxProtocols == 2

\* Ping sweep targets: base address and the prefixes swept (1, 2 or 4 addresses).
SweepBase == {16}
SweepPrefixes == {30, 31, 32}
\* live_hosts arguments of tcp_scan / udp_scan.
HostLists == {<<>>, <<10>>, <<10, 11>>}
\* live hosts handed to the fingerprint stage.
FingerprintHostLists == {<<10>>, <<10, 11>>}

RECURSIVE Pow2(_)
Pow2(n) == IF n = 0 THEN 1 ELSE 2 * Pow2(n - 1)

Range(s) == {s[i] : i \in DOMAIN s}

\* Option<..> of a port list or of a --ports string.
None == [some |-> FALSE, ports |-> <<>>]
Some(ps) == [some |-> TRUE, ports |-> ps]

(***************************************************************************)
(* Records shared by the stages.                                           *)
(***************************************************************************)
Msg(what, p, e) == [what |-> what, port |-> p, e |-> e]
NoMsg == Msg("", -1, "")
Out(kind, msg) == [kind |-> kind, msg |-> msg]
NoOut == Out("none", NoMsg)

EmptyResult ==
    [live_hosts |-> <<>>, not_alive_hosts |-> <<>>, errors |-> <<>>,
     open_ports |-> <<>>, services |-> <<>>]

NewTask(item, st, holdsPermit) ==
    [item |-> item, st |-> st, sock |-> FALSE, permit |-> holdsPermit,
     step |-> 0, out |-> NoOut, reply |-> FALSE]

\* Tokio's Semaphore: acquire_owned().await resumes only with a permit.
CanAcquireNoWait(p) == TRUE
CanAcquire(p) == p > 0

\* Dropping the OwnedSemaphorePermit (_permit) at the end of the task.
LeakPermit(p) == p
ReleasePermit(p) == p + 1

\* Capacity of the semaphore each stage creates (scaled to Permits).
Capacity(s) == Permits

GatedStages == {"ping", "tcp", "udp", "service"}

\* The task finished: its sockets are closed and its permit, if any, dropped.
Finished(t, out) ==
    [t EXCEPT !.st = "done", !.sock = FALSE, !.permit = FALSE, !.out = out]

FinishTask(i, out) ==
    /\ tasks' = [tasks EXCEPT ![i] = Finished(@, out)]
    /\ permits' = IF tasks[i].permit THEN ReleasePermit(permits) ELSE permits

Running(t) == t.st \notin {"done", "waiting"}
InFlight == Cardinality({i \in DOMAIN tasks : Running(tasks[i])})

(***************************************************************************)
(* ping_sweep (scanners/pingsweep.rs)                                      *)
(***************************************************************************)
\* parse_subnet's enumeration for a prefix that leaves few host bits.
SweepTargets(base, prefix) == [i \in 1..Pow2(32 - prefix) |-> base + (i - 1)]

\* What next_with_timeout can hand to is_host_alive.
IcmpTypes == {"EchoReply", "DestinationUnreachable", "Malformed"}
RecvOutcomes(target) ==
    {[kind |-> "packet", src |-> s, icmp |-> t] : s \in {target, target + 1}, t \in IcmpTypes}
    \cup {[kind |-> k, src |-> -1, icmp |-> ""] : k \in {"timeout", "error"}}

\* An Echo Reply whose source is the target.
ValidReply(target, r) == r.kind = "packet" /\ r.src = target /\ r.icmp = "EchoReply"

\* is_host_alive: the match on next_with_timeout and the final Ok(false).
IsHostAlive(target, r) ==
    CASE r.kind = "packet" ->
            IF r.src = target /\ r.icmp = "EchoReply"
            THEN Out("true", NoMsg) ELSE Out("false", NoMsg)
      [] r.kind = "timeout" -> Out("false", NoMsg)
      [] OTHER -> Out("err", Msg("Error receiving response", -1, "io"))

\* A join loop that drops the per-address errors.
PingCollectDropErrors(res, t) ==
    CASE t.out.kind = "true" -> [res EXCEPT !.live_hosts = Append(@, t.item)]
      [] t.out.kind = "false" -> [res EXCEPT !.not_alive_hosts = Append(@, t.item)]
      [] OTHER -> res

\* The match of ping_sweep's join loop on task.await.
PingCollect(res, t) ==
    CASE t.out.kind = "true" -> [res EXCEPT !.live_hosts = Append(@, t.item)]
      [] t.out.kind = "false" -> [res EXCEPT !.not_alive_hosts = Append(@, t.item)]
      [] t.out.kind = "err" -> [res EXCEPT !.errors = Append(@, <<t.item, t.out.msg>>)]
      [] OTHER -> [res EXCEPT !.errors = Append(@, <<0, Msg("Task failed", -1, "")>>)]

InitPing ==
    /\ stage = "ping"
    /\ user_ports_arg = None
    /\ \E b \in SweepBase, n \in SweepPrefixes : items = SweepTargets(b, n)
    /\ hosts = <<>>
    /\ hostIdx = 0
    /\ pc = "spawn"
    /\ permits = Capacity("ping")
    /\ tasks = <<>>

\* for ip in ips { acquire_owned().await; tokio::spawn(..) }
PingSpawn ==
    /\ stage = "ping" /\ pc = "spawn"
    /\ Len(tasks) < Len(items)
    /\ CanAcquire(permits)
    /\ permits' = permits - 1
    /\ tasks' = Append(tasks, NewTask(items[Len(tasks) + 1], "spawned", TRUE))
    /\ UNCHANGED <<stage, pc, items, hosts, hostIdx, joined, result, final, detectVars, pureVars>>

PingSpawned ==
    /\ stage = "ping" /\ pc = "spawn"
    /\ Len(tasks) = Len(items)
    /\ pc' = "join"
    /\ UNCHANGED <<stage, permits, items, hosts, hostIdx, tasks, joined, result, final, detectVars, pureVars>>

\* is_host_alive: transport_channel(..) opens the raw socket or fails.
PingOpenChannel(i) ==
    /\ stage = "ping"
    /\ tasks[i].st = "spawned"
    /\ \/ /\ tasks' = [tasks EXCEPT ![i].st = "channel", ![i].sock = TRUE]
          /\ UNCHANGED permits
       \/ FinishTask(i, Out("err", Msg("Failed to create transport channel", -1, "io")))
    /\ UNCHANGED <<stage, pc, items, hosts, hostIdx, joined, result, final, detectVars, pureVars>>

\* is_host_alive: tx.send_to(packet, target).
PingSend(i) ==
    /\ stage = "ping"
    /\ tasks[i].st = "channel"
    /\ \/ /\ tasks' = [tasks EXCEPT ![i].st = "sent"]
          /\ UNCHANGED permits
       \/ FinishTask(i, Out("err", Msg("Failed to send ICMP request", -1, "io")))
    /\ UNCHANGED <<stage, pc, items, hosts, hostIdx, joined, result, final, detectVars, pureVars>>

\* is_host_alive: iter.next_with_timeout(5 s) and the classification of what it returns.
PingReceive(i) ==
    /\ stage = "ping"
    /\ tasks[i].st = "sent"
    /\ \E r \in RecvOutcomes(tasks[i].item), later \in BOOLEAN :
          \* the target's reply can still arrive inside the 5 s after another packet did
          /\ later => (r.kind = "packet" /\ ~ValidReply(tasks[i].item, r))
          /\ tasks' = [tasks EXCEPT ![i] =
                          [Finished(@, IsHostAlive(tasks[i].item, r))
                              EXCEPT !.reply = ValidReply(tasks[i].item, r) \/ later]]
          /\ permits' = IF tasks[i].permit THEN ReleasePermit(permits) ELSE permits
    /\ UNCHANGED <<stage, pc, items, hosts, hostIdx, joined, result, final, detectVars, pureVars>>

\* A spawned task that panics: its JoinHandle yields Err(JoinError).
TaskPanics(i) ==
    /\ stage \in {"ping", "tcp", "udp"}
    /\ tasks[i].st # "done"
    /\ FinishTask(i, Out("panic", NoMsg))
    /\ UNCHANGED <<stage, pc, items, hosts, hostIdx, joined, result, final, detectVars, pureVars>>

\* for task in tasks { match task.await {..} }
PingJoin ==
    /\ stage = "ping" /\ pc = "join"
    /\ joined < Len(tasks)
    /\ tasks[joined + 1].st = "done"
    /\ result' = PingCollect(result, tasks[joined + 1])
    /\ joined' = joined + 1
    /\ UNCHANGED <<stage, pc, permits, items, hosts, hostIdx, tasks, final, detectVars, pureVars>>

\* Ok(result)
PingReturn ==
    /\ stage = "ping" /\ pc = "join"
    /\ joined = Len(tasks)
    /\ pc' = "done"
    /\ UNCHANGED <<stage, permits, items, hosts, hostIdx, tasks, joined, result, final, detectVars, pureVars>>

(***************************************************************************)
(* tcp_scan / udp_scan (scanners/tcpscan.rs, scanners/udpscan.rs)          *)
(***************************************************************************)
\* A Range<u16> lo..hi as the list of its ports.
\* An inclusive range lo..=hi.
PortRangeInclusive(lo, hi) == [i \in 1..(IF hi >= lo THEN hi - lo + 1 ELSE 0) |-> lo + (i - 1)]

PortRange(lo, hi) == [i \in 1..(IF hi > lo THEN hi - lo ELSE 0) |-> lo + (i - 1)]

\* The io errors a TCP connect reports, remote and local.
ConnectErrors == {"ConnectionRefused", "TooManyOpenFiles"}

\* tcp task: the match on timeout(CONNECTION_TIMEOUT, TcpStream::connect(addr)).
TcpProbeResult(p, c) ==
    CASE c.kind = "connected" -> Out("open", NoMsg)
      [] c.kind = "io_error" -> Out("err", Msg("Error connecting", p, c.e))
      [] OTHER -> Out("err", Msg("Timeout connecting", p, ""))

\* A probe that reports silence as open (open|filtered).
UdpProbeOpenFiltered(p, c) ==
    CASE c.kind \in {"received", "elapsed"} -> Out("open", NoMsg)
      [] c.kind = "io_error" -> Out("err", Msg("Error on", p, c.e))
      [] OTHER -> Out("err", Msg("Error on", p, "No response"))

\* udp task: the match on timeout(CONNECTION_TIMEOUT, async { bind; connect; send; recv }).
UdpProbeResult(p, c) ==
    CASE c.kind = "received" -> Out("open", NoMsg)
      [] c.kind = "io_error" -> Out("err", Msg("Error on", p, c.e))
      [] c.kind = "recv_error" -> Out("err", Msg("Error on", p, "No response"))
      [] OTHER -> Out("err", Msg("Timeout on", p, ""))

\* A join loop that records only successes (refused and timed-out probes dropped).
ScanCollectOpenOnly(res, ip, t) ==
    IF t.out.kind = "open" THEN [res EXCEPT !.open_ports = Append(@, <<ip, t.item>>)]
    ELSE res

\* A join loop that records each outcome in front of the earlier ones.
ScanCollectNewestFirst(res, ip, t) ==
    CASE t.out.kind = "open" -> [res EXCEPT !.open_ports = <<<<ip, t.item>>>> \o @]
      [] t.out.kind = "err" -> [res EXCEPT !.errors = <<<<ip, t.out.msg>>>> \o @]
      [] OTHER -> [res EXCEPT !.errors = <<<<ip, Msg("Task failed", -1, "")>>>> \o @]

\* The match of scan_ports' / scan_udp_ports' join loop on task.await.
ScanCollect(res, ip, t) ==
    CASE t.out.kind = "open" -> [res EXCEPT !.open_ports = Append(@, <<ip, t.item>>)]
      [] t.out.kind = "err" -> [res EXCEPT !.errors = Append(@, <<ip, t.out.msg>>)]
      [] OTHER -> [res EXCEPT !.errors = Append(@, <<ip, Msg("Task failed", -1, "")>>)]

InitScan ==
    /\ stage \in {"tcp", "udp"}
    /\ user_ports_arg = None
    /\ hosts \in HostLists
    /\ \E hi \in 0..MaxPorts : Len(hosts) * hi <= MaxPorts /\ items = PortRange(0, hi)
    /\ hostIdx = 1
    /\ pc = IF hosts = <<>> THEN "done" ELSE "spawn"
    /\ permits = Capacity(stage)
    /\ tasks = <<>>

\* for port in port_range { acquire_owned().await; tokio::spawn(..) }
ScanSpawn ==
    /\ stage \in {"tcp", "udp"} /\ pc = "spawn"
    /\ Len(tasks) < Len(items)
    /\ CanAcquire(permits)
    /\ permits' = permits - 1
    /\ tasks' = Append(tasks, NewTask(items[Len(tasks) + 1], "spawned", TRUE))
    /\ UNCHANGED <<stage, pc, items, hosts, hostIdx, joined, result, final, detectVars, pureVars>>

ScanSpawned ==
    /\ stage \in {"tcp", "udp"} /\ pc = "spawn"
    /\ Len(tasks) = Len(items)
    /\ pc' = "join"
    /\ UNCHANGED <<stage, permits, items, hosts, hostIdx, tasks, joined, result, final, detectVars, pureVars>>

\* TcpStream::connect creates the socket (or fails locally) and starts connecting.
TcpOpenSocket(i) ==
    /\ stage = "tcp"
    /\ tasks[i].st = "spawned"
    /\ \/ /\ tasks' = [tasks EXCEPT ![i].st = "connecting", ![i].sock = TRUE]
          /\ UNCHANGED permits
       \/ FinishTask(i, TcpProbeResult(tasks[i].item,
                            [kind |-> "io_error", e |-> "TooManyOpenFiles"]))
    /\ UNCHANGED <<stage, pc, items, hosts, hostIdx, joined, result, final, detectVars, pureVars>>

\* The connect completes, fails, or the 3 s timeout elapses.
TcpConnectDone(i) ==
    /\ stage = "tcp"
    /\ tasks[i].st = "connecting"
    /\ \E c \in {[kind |-> "connected", e |-> ""], [kind |-> "elapsed", e |-> ""],
                 [kind |-> "io_error", e |-> "ConnectionRefused"]} :
          FinishTask(i, TcpProbeResult(tasks[i].item, c))
    /\ UNCHANGED <<stage, pc, items, hosts, hostIdx, joined, result, final, detectVars, pureVars>>

\* UdpSocket::bind("0.0.0.0:0") creates the socket or fails.
UdpBind(i) ==
    /\ stage = "udp"
    /\ tasks[i].st = "spawned"
    /\ \/ /\ tasks' = [tasks EXCEPT ![i].st = "bound", ![i].sock = TRUE]
          /\ UNCHANGED permits
       \/ FinishTask(i, UdpProbeResult(tasks[i].item,
                            [kind |-> "io_error", e |-> "TooManyOpenFiles"]))
    /\ UNCHANGED <<stage, pc, items, hosts, hostIdx, joined, result, final, detectVars, pureVars>>

\* connect, send, recv: a datagram arrives, an io error, or the 3 s timeout elapses.
UdpExchangeDone(i) ==
    /\ stage = "udp"
    /\ tasks[i].st = "bound"
    /\ \E c \in {[kind |-> "received", e |-> ""], [kind |-> "elapsed", e |-> ""],
                 [kind |-> "recv_error", e |-> ""],
                 [kind |-> "io_error", e |-> "NetworkUnreachable"]} :
          FinishTask(i, UdpProbeResult(tasks[i].item, c))
    /\ UNCHANGED <<stage, pc, items, hosts, hostIdx, joined, result, final, detectVars, pureVars>>

\* for task in tasks { match task.await {..} }
ScanJoin ==
    /\ stage \in {"tcp", "udp"} /\ pc = "join"
    /\ joined < Len(tasks)
    /\ tasks[joined + 1].st = "done"
    /\ result' = ScanCollect(result, hosts[hostIdx], tasks[joined + 1])
    /\ joined' = joined + 1
    /\ UNCHANGED <<stage, pc, permits, items, hosts, hostIdx, tasks, final, detectVars, pureVars>>

\* scan_ports returns; tcp_scan extends final_result and goes to the next host.
ScanHostDone ==
    /\ stage \in {"tcp", "udp"} /\ pc = "join"
    /\ joined = Len(tasks)
    /\ final' = [final EXCEPT !.open_ports = @ \o result.open_ports,
                              !.errors = @ \o result.errors]
    /\ result' = EmptyResult
    /\ tasks' = <<>>
    /\ joined' = 0
    /\ hostIdx' = hostIdx + 1
    /\ pc' = IF hostIdx + 1 > Len(hosts) THEN "done" ELSE "spawn"
    /\ UNCHANGED <<stage, permits, items, hosts, detectVars, pureVars>>

(***************************************************************************)
(* service_scan (scanners/service_detection.rs)                            *)
(***************************************************************************)
\* default_ports(): 0..=1024 in the code, 0..=MaxDefaultPort in the model.
MaxDefaultPort == 1
default_ports == [i \in 1..(MaxDefaultPort + 1) |-> i - 1]

RECURSIVE SortedSeq(_)
\* The ascending list of a finite set of numbers (collect + sort_unstable).
SortedSeq(S) ==
    IF S = {} THEN <<>>
    ELSE LET m == CHOOSE x \in S : \A y \in S : x <= y
         IN <<m>> \o SortedSeq(S \ {m})

\* The user's ports alone when they are given, the default list otherwise.
merged_ports_user_only(user_ports) ==
    IF user_ports.some THEN SortedSeq(Range(user_ports.ports)) ELSE default_ports

\* merged_ports: the default list plus the user's ports, deduplicated and sorted.
merged_ports(user_ports) ==
    SortedSeq(Range(default_ports) \cup (IF user_ports.some THEN Range(user_ports.ports) ELSE {}))

\* The user_ports arguments tried.
UserPorts == {None, Some(<<>>), Some(<<7>>), Some(<<7, 0, 7>>)}

\* buffer_unordered(64): at most that many futures are polled at once.
BufferSize == Capacity("service")

\* What detect_service returned, by kind (SpecDetect has the function itself).
ServiceKinds == {"protocol", "Unknown Service"}

Buffered == Cardinality({i \in DOMAIN tasks : tasks[i].st # "done"})

InitService ==
    /\ stage = "service"
    /\ \E u \in UserPorts : user_ports_arg = u /\ items = merged_ports(u)
    /\ hosts = <<>>
    /\ hostIdx = 0
    /\ pc = "stream"
    /\ permits = Capacity("service")
    /\ tasks = <<>>

\* buffer_unordered takes the next future from the stream while it has room.
ServicePull ==
    /\ stage = "service" /\ pc = "stream"
    /\ Len(tasks) < Len(items)
    /\ Buffered < BufferSize
    /\ tasks' = Append(tasks, NewTask(items[Len(tasks) + 1], "waiting", FALSE))
    /\ UNCHANGED <<stage, pc, permits, items, hosts, hostIdx, joined, result, final, detectVars, pureVars>>

\* let _permit = semaphore.acquire().await.unwrap();
ServiceAcquire(i) ==
    /\ stage = "service"
    /\ tasks[i].st = "waiting"
    /\ CanAcquire(permits)
    /\ permits' = permits - 1
    /\ tasks' = [tasks EXCEPT ![i].st = "probing", ![i].permit = TRUE]
    /\ UNCHANGED <<stage, pc, items, hosts, hostIdx, joined, result, final, detectVars, pureVars>>

\* detect_service connects (a protocol probe or the generic banner read).
ServiceConnect(i) ==
    /\ stage = "service"
    /\ tasks[i].st = "probing"
    /\ ~tasks[i].sock
    /\ tasks' = [tasks EXCEPT ![i].sock = TRUE]
    /\ UNCHANGED <<stage, pc, permits, items, hosts, hostIdx, joined, result, final, detectVars, pureVars>>

\* detect_service returns; the permit is dropped and the stream yields the result.
ServiceComplete(i) ==
    /\ stage = "service"
    /\ tasks[i].st = "probing"
    /\ tasks[i].sock
    /\ \E k \in ServiceKinds :
          /\ FinishTask(i, Out(k, NoMsg))
          /\ result' = [result EXCEPT
                          !.services = Append(@, [port |-> tasks[i].item, service |-> k])]
    /\ joined' = joined + 1
    /\ UNCHANGED <<stage, pc, items, hosts, hostIdx, final, detectVars, pureVars>>

\* collect() ends when the stream and the buffer are exhausted.
ServiceCollected ==
    /\ stage = "service" /\ pc = "stream"
    /\ Len(tasks) = Len(items)
    /\ Buffered = 0
    /\ pc' = "done"
    /\ UNCHANGED <<stage, permits, items, hosts, hostIdx, tasks, joined, result, final, detectVars, pureVars>>

(***************************************************************************)
(* The driver's fingerprint stage (main.rs, utils/fingerprinting.rs)       *)
(***************************************************************************)
\* fingerprint_host runs these probes one after another.
FingerprintProbes == <<"ssh", "http", "snmp", "netbios", "mac_vendor", "tcpip_stack">>
\* Every probe but the local MAC lookup opens a socket to the host.
OpensSocket(probe) == probe # "mac_vendor"

\* join_all(live_hosts.iter().map(|&ip| fingerprint_host(ip, ..))): one future
\* per live host, all polled together; no semaphore is involved.
InitFingerprint ==
    /\ stage = "fingerprint"
    /\ user_ports_arg = None
    /\ hosts \in FingerprintHostLists
    /\ items = hosts
    /\ hostIdx = 0
    /\ pc = "join_all"
    /\ permits = 0
    /\ tasks = [i \in DOMAIN hosts |-> [NewTask(hosts[i], "probing", FALSE) EXCEPT !.step = 1]]

\* TcpStream::connect / UdpSocket::bind / SyncSession::new of the current probe.
FingerprintConnect(i) ==
    /\ stage = "fingerprint"
    /\ tasks[i].st = "probing"
    /\ ~tasks[i].sock
    /\ OpensSocket(FingerprintProbes[tasks[i].step])
    /\ tasks' = [tasks EXCEPT ![i].sock = TRUE]
    /\ UNCHANGED <<stage, pc, permits, items, hosts, hostIdx, joined, result, final, detectVars, pureVars>>

\* The current probe returns (banner or None); fingerprint_host goes on, or returns.
FingerprintProbeDone(i) ==
    /\ stage = "fingerprint"
    /\ tasks[i].st = "probing"
    /\ tasks[i].sock \/ ~OpensSocket(FingerprintProbes[tasks[i].step])
    /\ IF tasks[i].step < Len(FingerprintProbes)
       THEN /\ tasks' = [tasks EXCEPT ![i].sock = FALSE, ![i].step = @ + 1]
            /\ UNCHANGED permits
       ELSE FinishTask(i, Out("fingerprint", NoMsg))
    /\ UNCHANGED <<stage, pc, items, hosts, hostIdx, joined, result, final, detectVars, pureVars>>

\* join_all(..).await completes when every future has.
FingerprintJoined ==
    /\ stage = "fingerprint" /\ pc = "join_all"
    /\ \A i \in DOMAIN tasks : tasks[i].st = "done"
    /\ pc' = "done"
    /\ joined' = Len(tasks)
    /\ UNCHANGED <<stage, permits, items, hosts, hostIdx, tasks, result, final, detectVars, pureVars>>

(***************************************************************************)
(* detect_service (scanners/service_detection.rs)                          *)
(***************************************************************************)
\* enum Protocol
Protocol == {"Ssh", "Ftp", "Smtp", "Http", "Https", "Dns", "Pop3", "Imap", "Telnet"}

\* Text is a tuple of characters, so that prefixes, substrings and trimming are computed.
SSH_ == <<"S", "S", "H", "-">>
FTP == <<"F", "T", "P">>
SMTP == <<"S", "M", "T", "P">>
ESMTP == <<"E", "S", "M", "T", "P">>
HTTP10 == <<"H", "T", "T", "P", "/", "1", ".", "0">>
HTTP11 == <<"H", "T", "T", "P", "/", "1", ".", "1">>
PLUS_OK == <<"+", "O", "K">>
STAR_OK == <<"*", " ", "O", "K">>
LOGIN == <<"l", "o", "g", "i", "n">>
WELCOME == <<"W", "e", "l", "c", "o", "m", "e">>
NEWLINE == <<"\n">>
HEAD_REQUEST == <<"H", "E", "A", "D", " ", "/">>
DNS_QUERY == <<"0x12", "0x34", "0x01", "0x00">>

\* What a peer may send on one connection (the bytes one read returns).
Banners ==
    { SSH_ \o <<"2">>, <<"h", "i", "\n">>, <<>>, <<" ", "\n">>, <<"2", " ">> \o FTP,
      ESMTP, HTTP11, PLUS_OK, STAR_OK, LOGIN }
\* Datagrams a peer may answer the DNS query with.
Datagrams == { <<"0x12", "0x34", "0x81", "0x80">>, <<"0x12">>, <<"0x56", "0x78">>, <<>> }
\* The ports detect_service is called with: the SSH port and a non-canonical one.
DetectPorts == {22, 30778}

\* str::starts_with
StartsWith(b, pat) == Len(b) >= Len(pat) /\ SubSeq(b, 1, Len(pat)) = pat
\* str::contains
Contains(b, pat) ==
    \E i \in 1..(Len(b) - Len(pat) + 1) : SubSeq(b, i, i + Len(pat) - 1) = pat
Whitespace == {" ", "\n", "\r", "\t"}
RECURSIVE Trim(_)
\* str::trim
Trim(b) ==
    IF b = <<>> THEN b
    ELSE IF b[1] \in Whitespace THEN Trim(Tail(b))
    ELSE IF b[Len(b)] \in Whitespace THEN Trim(SubSeq(b, 1, Len(b) - 1))
    ELSE b

RECURSIVE Join(_)
\* errors.join(" | ")
Join(es) ==
    IF es = <<>> THEN <<>>
    ELSE IF Len(es) = 1 THEN es
    ELSE <<es[1], " | ">> \o Join(Tail(es))

\* Option<T>: None is <<>>, Some(x) is <<x>>.
Nothing == <<>>
Just(x) == <<x>>

\* The service strings: a fixed name, or format!("Banner: {}", banner.trim()).
Service(name) == [name |-> name, text |-> <<>>]
BannerService(b) == [name |-> "Banner: ", text |-> Trim(b)]

\* The name each arm returns and pushes to protocol_failures.
ServiceName(proto) ==
    CASE proto = "Ssh" -> "SSH" [] proto = "Ftp" -> "FTP" [] proto = "Smtp" -> "SMTP"
      [] proto = "Http" -> "HTTP" [] proto = "Https" -> "HTTPS" [] proto = "Dns" -> "DNS"
      [] proto = "Pop3" -> "POP3" [] proto = "Imap" -> "IMAP" [] OTHER -> "Telnet"

\* The reason each arm pushes to errors when it did not match.
FailureReason(proto) ==
    CASE proto = "Ftp" -> "FTP: no valid FTP banner"
      [] proto = "Smtp" -> "SMTP: no valid SMTP banner"
      [] proto = "Http" -> "HTTP: no valid HTTP response"
      [] proto = "Https" -> "HTTPS: no valid TLS handshake"
      [] proto = "Dns" -> "DNS: no valid DNS response"
      [] proto = "Pop3" -> "POP3: no valid POP3 banner"
      [] proto = "Imap" -> "IMAP: no valid IMAP banner"
      [] OTHER -> "Telnet: no valid Telnet banner"

\* The test each arm applies to the bytes it read.
Accepts(proto, b) ==
    CASE proto = "Ssh" -> StartsWith(b, SSH_)
      [] proto = "Ftp" -> Contains(b, FTP)
      [] proto = "Smtp" -> Contains(b, SMTP) \/ Contains(b, ESMTP)
      [] proto = "Http" -> Contains(b, HTTP10) \/ Contains(b, HTTP11)
      [] proto = "Https" -> Contains(b, HTTP11) \/ Trim(b) # <<>>
      [] proto = "Dns" -> Len(b) >= 2 /\ b[1] = "0x12" /\ b[2] = "0x34"
      [] proto = "Pop3" -> StartsWith(b, PLUS_OK)
      [] proto = "Imap" -> StartsWith(b, STAR_OK)
      [] OTHER -> Contains(b, LOGIN) \/ Contains(b, WELCOME)

\* The arms that connect, read one banner and test it (Http writes a request first).
BannerProtocols == {"Ftp", "Smtp", "Http", "Pop3", "Imap", "Telnet"}

\* Network events of a probe.
Connect(to, ok) == [ev |-> "connect", to |-> to, ok |-> ok, data |-> <<>>]
Read(r) == [ev |-> "read", to |-> -1, ok |-> r.ok, data |-> r.data]
Write(d) == [ev |-> "write", to |-> -1, ok |-> TRUE, data |-> d]
Step(name, ok) == [ev |-> name, to |-> -1, ok |-> ok, data |-> <<>>]

\* A read under tokio::time::timeout: Ok(Ok(n)) with the bytes, or a timeout / io error.
Reads(S) == {[ok |-> FALSE, data |-> <<>>]} \cup {[ok |-> TRUE, data |-> b] : b \in S}

\* let addr = SocketAddr::new(IpAddr::V4(ip), port): where every probe connects.
CanonicalPort(proto) ==
    CASE proto = "Ssh" -> 22 [] proto = "Ftp" -> 21 [] proto = "Smtp" -> 25
      [] proto = "Http" -> 80 [] proto = "Https" -> 443 [] proto = "Dns" -> 53
      [] proto = "Pop3" -> 110 [] proto = "Imap" -> 143 [] OTHER -> 23
AddrCanonical(proto) == CanonicalPort(proto)
Addr(proto) == port

\* for proto in protocols: the protocol of the i-th iteration.
ProtoReversed(i) == protocols[Len(protocols) + 1 - i]
Proto(i) == protocols[i]

\* The error of the fallback result.
FallbackErrorNone(es) == Nothing
FallbackError(es) == IF es = <<>> THEN Nothing ELSE Just(Join(es))

\* ServiceDetectionResult::new(port, service, error, protocol_failures) is returned.
Return(service, error) ==
    /\ dpc' = "done"
    /\ ret' = [port |-> port, service |-> Just(service), error |-> error,
               protocol_failures |-> protocol_failures]
    /\ UNCHANGED <<errors, protocol_failures, idx>>

\* The arm did not match: push its reason and its name, go to the next protocol.
Fail(proto) ==
    /\ errors' = Append(errors, FailureReason(proto))
    /\ protocol_failures' = Append(protocol_failures, ServiceName(proto))
    /\ idx' = idx + 1
    /\ UNCHANGED <<dpc, ret>>

InArm(proto) == dpc = "loop" /\ idx <= Len(protocols) /\ Proto(idx) = proto

\* Protocol::Ssh
ProbeSsh ==
    /\ InArm("Ssh")
    /\ attempted' = Append(attempted, "Ssh")
    /\ \E c \in BOOLEAN, r1 \in Reads(Banners), r2 \in Reads(Banners) :
          IF ~c
          THEN /\ io' = <<Connect(Addr("Ssh"), FALSE)>>
               /\ errors' = Append(errors, "SSH: connection timeout")
               /\ idx' = idx + 1
               /\ UNCHANGED <<dpc, ret, protocol_failures>>
          ELSE IF r1.ok /\ Accepts("Ssh", r1.data)
          THEN /\ io' = <<Connect(Addr("Ssh"), TRUE), Read(r1)>>
               /\ Return(Service(ServiceName("Ssh")), Nothing)
          ELSE /\ io' = <<Connect(Addr("Ssh"), TRUE), Read(r1), Write(NEWLINE), Read(r2)>>
               /\ IF r2.ok /\ Accepts("Ssh", r2.data)
                  THEN Return(Service(ServiceName("Ssh")), Nothing)
                  ELSE /\ idx' = idx + 1
                       /\ UNCHANGED <<dpc, ret, errors, protocol_failures>>
    /\ UNCHANGED <<port, protocols, generic, stageVars, pureVars>>

\* Protocol::Ftp, Smtp, Http, Pop3, Imap, Telnet
ProbeBanner(proto) ==
    /\ InArm(proto)
    /\ attempted' = Append(attempted, proto)
    /\ \E c \in BOOLEAN, r \in Reads(Banners) :
          LET request == IF proto = "Http" THEN <<Write(HEAD_REQUEST)>> ELSE <<>>
          IN IF ~c
             THEN /\ io' = <<Connect(Addr(proto), FALSE)>>
                  /\ Fail(proto)
             ELSE /\ io' = <<Connect(Addr(proto), TRUE)>> \o request \o <<Read(r)>>
                  /\ IF r.ok /\ Accepts(proto, r.data)
                     THEN Return(Service(ServiceName(proto)), Nothing)
                     ELSE Fail(proto)
    /\ UNCHANGED <<port, protocols, generic, stageVars, pureVars>>

\* Protocol::Https
ProbeHttps ==
    /\ InArm("Https")
    /\ attempted' = Append(attempted, "Https")
    /\ \E c \in BOOLEAN, tls \in BOOLEAN, hs \in BOOLEAN, r \in Reads(Banners) :
          IF ~c
          THEN /\ io' = <<Connect(Addr("Https"), FALSE)>>
               /\ Fail("Https")
          ELSE IF ~tls
          THEN /\ io' = <<Connect(Addr("Https"), TRUE), Step("TlsConnector::new", FALSE)>>
               /\ Fail("Https")
          ELSE IF ~hs
          THEN /\ io' = <<Connect(Addr("Https"), TRUE), Step("TlsConnector::new", TRUE),
                          Step("handshake", FALSE)>>
               /\ Fail("Https")
          ELSE /\ io' = <<Connect(Addr("Https"), TRUE), Step("TlsConnector::new", TRUE),
                          Step("handshake", TRUE), Read(r)>>
               /\ IF r.ok /\ Accepts("Https", r.data)
                  THEN Return(Service(ServiceName("Https")), Nothing)
                  ELSE Fail("Https")
    /\ UNCHANGED <<port, protocols, generic, stageVars, pureVars>>

\* Protocol::Dns
ProbeDns ==
    /\ InArm("Dns")
    /\ attempted' = Append(attempted, "Dns")
    /\ \E bound \in BOOLEAN, r \in Reads(Datagrams) :
          IF ~bound
          THEN /\ io' = <<Step("bind", FALSE)>>
               /\ Fail("Dns")
          ELSE /\ io' = <<Step("bind", TRUE),
                          [ev |-> "send_to", to |-> Addr("Dns"), ok |-> TRUE, data |-> DNS_QUERY],
                          Read(r)>>
               /\ IF r.ok /\ Accepts("Dns", r.data)
                  THEN Return(Service(ServiceName("Dns")), Nothing)
                  ELSE Fail("Dns")
    /\ UNCHANGED <<port, protocols, generic, stageVars, pureVars>>

\* The generic banner read after the loop, and the fallback result.
GenericBanner ==
    /\ dpc = "loop" /\ idx > Len(protocols)
    /\ generic' = generic + 1
    /\ \E c \in BOOLEAN, r \in Reads(Banners) :
          IF ~c
          THEN /\ io' = <<Connect(port, FALSE)>>
               /\ Return(Service("Unknown Service"), FallbackError(errors))
          ELSE /\ io' = <<Connect(port, TRUE), Read(r)>>
               /\ IF r.ok /\ Trim(r.data) # <<>>
                  THEN Return(BannerService(r.data), Nothing)
                  ELSE Return(Service("Unknown Service"), FallbackError(errors))
    /\ UNCHANGED <<port, protocols, attempted, stageVars, pureVars>>

NoResult == [port |-> -1, service |-> Nothing, error |-> Nothing, protocol_failures |-> <<>>]

RECURSIVE SeqsUpTo(_, _)
\* The sequences over S of length at most n.
SeqsUpTo(S, n) ==
    IF n = 0 THEN {<<>>}
    ELSE LET shorter == SeqsUpTo(S, n - 1)
         IN shorter \cup {Append(q, x) : q \in shorter, x \in S}

\* detect_service is not running.
DetectIdle ==
    /\ dpc = "idle"
    /\ port = 0
    /\ protocols = <<>>
    /\ idx = 0
    /\ errors = <<>>
    /\ protocol_failures = <<>>
    /\ attempted = <<>>
    /\ io = <<>>
    /\ generic = 0
    /\ ret = NoResult

\* No stage is running.
StageIdle ==
    /\ stage = "none"
    /\ pc = "idle"
    /\ permits = 0
    /\ items = <<>>
    /\ hosts = <<>>
    /\ hostIdx = 0
    /\ tasks = <<>>
    /\ joined = 0
    /\ result = EmptyResult
    /\ final = EmptyResult
    /\ user_ports_arg = None

(***************************************************************************)
(* parse_subnet and the entry of ping_sweep (scanners/pingsweep.rs)        *)
(***************************************************************************)
\* The subnet strings tried, as characters:
\*   "10.0.0.0/24"
\*   "10.0.0.16/30"
\*   "10.0.0.5/32"
\*   "10.0.0.5/30"
\*   "255.255.255.255/31"
\*   "0.0.0.0/0"
\*   "10.0.0.0/+29"
\*   "10.0.0.0"
\*   ""
\*   "999.0.0.1/24"
\*   "10.0.0/24"
\*   "10.0.0.0/33"
\*   "10.0.0.0/x"
\*   "10.0.0.0/"
\*   "10.0.0.0/24/1"
\*   "x/99"
Subnets ==
    {<<"1", "0", ".", "0", ".", "0", ".", "0", "/", "2", "4">>,
     <<"1", "0", ".", "0", ".", "0", ".", "1", "6", "/", "3", "0">>,
     <<"1", "0", ".", "0", ".", "0", ".", "5", "/", "3", "2">>,
     <<"1", "0", ".", "0", ".", "0", ".", "5", "/", "3", "0">>,
     <<"2", "5", "5", ".", "2", "5", "5", ".", "2", "5", "5", ".", "2", "5", "5", "/", "3", "1">>,
     <<"0", ".", "0", ".", "0", ".", "0", "/", "0">>,
     <<"1", "0", ".", "0", ".", "0", ".", "0", "/", "+", "2", "9">>,
     <<"1", "0", ".", "0", ".", "0", ".", "0">>,
     <<>>,
     <<"9", "9", "9", ".", "0", ".", "0", ".", "1", "/", "2", "4">>,
     <<"1", "0", ".", "0", ".", "0", "/", "2", "4">>,
     <<"1", "0", ".", "0", ".", "0", ".", "0", "/", "3", "3">>,
     <<"1", "0", ".", "0", ".", "0", ".", "0", "/", "x">>,
     <<"1", "0", ".", "0", ".", "0", ".", "0", "/">>,
     <<"1", "0", ".", "0", ".", "0", ".", "0", "/", "2", "4", "/", "1">>,
     <<"x", "/", "9", "9">>}

\* overflow-checks on (debug profile) or off (release profile).
Builds == {"debug", "release"}

RECURSIVE Split(_, _)
\* str::split(sep): the parts between the separators; always at least one part.
Split(s, sep) ==
    IF \E k \in DOMAIN s : s[k] = sep
    THEN LET k == CHOOSE j \in DOMAIN s : s[j] = sep /\ \A m \in 1..(j - 1) : s[m] # sep
         IN <<SubSeq(s, 1, k - 1)>> \o Split(SubSeq(s, k + 1, Len(s)), sep)
    ELSE <<s>>

Digits == {"0", "1", "2", "3", "4", "5", "6", "7", "8", "9"}
DigitValue(c) ==
    CASE c = "0" -> 0 [] c = "1" -> 1 [] c = "2" -> 2 [] c = "3" -> 3 [] c = "4" -> 4
      [] c = "5" -> 5 [] c = "6" -> 6 [] c = "7" -> 7 [] c = "8" -> 8 [] OTHER -> 9

RECURSIVE Decimal(_)
\* The value of a string of digits.
Decimal(s) ==
    IF s = <<>> THEN 0 ELSE 10 * Decimal(SubSeq(s, 1, Len(s) - 1)) + DigitValue(s[Len(s)])

Parsed(v) == [ok |-> TRUE, v |-> v]
ParseError == [ok |-> FALSE, v |-> 0]

\* <u32 as FromStr>::from_str: an optional '+', then one or more digits.  Strings
\* of more than nine digits (values TLC's integers cannot hold) are none of the
\* model's inputs and are taken as out of range.
ParseU32(s) ==
    LET digits == IF s # <<>> /\ s[1] = "+" THEN Tail(s) ELSE s
    IN IF digits = <<>> \/ (\E k \in DOMAIN digits : digits[k] \notin Digits) \/ Len(digits) > 9
       THEN ParseError
       ELSE Parsed(Decimal(digits))

\* One octet of <Ipv4Addr as FromStr>::from_str: one to three digits, no leading
\* zero, at most 255.
ParseOctet(s) ==
    IF \/ s = <<>> \/ Len(s) > 3
       \/ \E k \in DOMAIN s : s[k] \notin Digits
       \/ (Len(s) > 1 /\ s[1] = "0")
       \/ Decimal(s) > 255
    THEN ParseError
    ELSE Parsed(Decimal(s))

\* <Ipv4Addr as FromStr>::from_str: four octets separated by dots.
ParseIpv4(s) ==
    LET parts == Split(s, ".")
    IN IF Len(parts) = 4 /\ \A k \in 1..4 : ParseOctet(parts[k]).ok
       THEN Parsed([k \in 1..4 |-> ParseOctet(parts[k]).v])
       ELSE ParseError

\* u32::from(base_ip) + i on the four octets, with the carry out of the top octet.
AddU32(o, i) ==
    LET s4 == o[4] + i
        s3 == o[3] + (s4 \div 256)
        s2 == o[2] + (s3 \div 256)
        s1 == o[1] + (s2 \div 256)
    IN [ip |-> <<s1 % 256, s2 % 256, s3 % 256, s4 % 256>>, overflow |-> s1 \div 256 > 0]

\* 2u32.pow(e): 2^32 does not fit; the value wraps to 0 without overflow checks.
PowU32(e) ==
    IF e >= 32 THEN [v |-> 0, overflow |-> TRUE] ELSE [v |-> Pow2(e), overflow |-> FALSE]

ParseOk(ips) == [kind |-> "ok", ips |-> ips, msg |-> ""]
ParseErr(msg) == [kind |-> "err", ips |-> <<>>, msg |-> msg]
ParsePanic == [kind |-> "panic", ips |-> <<>>, msg |-> "attempt to add or multiply with overflow"]
NotParsed == [kind |-> "none", ips |-> <<>>, msg |-> ""]

\* The enumeration loop of parse_subnet: for i in 0..num_ips { base + i }.
Enumerate(base, num_ips, b) ==
    IF b = "debug" /\ \E i \in 0..(num_ips - 1) : AddU32(base, i).overflow
    THEN ParsePanic
    ELSE ParseOk([k \in 1..num_ips |-> AddU32(base, k - 1).ip])

\* parse_subnet with the prefix examined before the address.
parse_subnet_prefix_first(s, b) ==
    LET parts == Split(s, "/")
    IN IF Len(parts) # 2
       THEN ParseErr("Invalid subnet format. Use CIDR notation (e.g., 192.168.1.0/24).")
       ELSE LET prefix == ParseU32(parts[2])
                base_ip == ParseIpv4(parts[1])
            IN IF ~prefix.ok \/ prefix.v > 32 THEN ParseErr("Invalid prefix.")
               ELSE IF ~base_ip.ok THEN ParseErr("Invalid IP address.")
               ELSE IF PowU32(32 - prefix.v).overflow /\ b = "debug" THEN ParsePanic
               ELSE Enumerate(base_ip.v, PowU32(32 - prefix.v).v, b)

\* parse_subnet(subnet) as built with profile b.
parse_subnet(s, b) ==
    LET parts == Split(s, "/")
    IN IF Len(parts) # 2
       THEN ParseErr("Invalid subnet format. Use CIDR notation (e.g., 192.168.1.0/24).")
       ELSE LET base_ip == ParseIpv4(parts[1])
                prefix == ParseU32(parts[2])
            IN IF ~base_ip.ok THEN ParseErr("Invalid IP address.")
               ELSE IF ~prefix.ok THEN ParseErr("Invalid prefix.")
               ELSE IF prefix.v > 32 THEN ParseErr("Invalid prefix.")
               ELSE IF PowU32(32 - prefix.v).overflow /\ b = "debug" THEN ParsePanic
               ELSE Enumerate(base_ip.v, PowU32(32 - prefix.v).v, b)

\* ping_sweep is not being called.
ParseIdle ==
    /\ spc = "idle"
    /\ subnet = <<>>
    /\ build = "release"
    /\ parsed = NotParsed
    /\ sent = 0

\* Neither parse_ports nor format_port_ranges is being called.
PortsIdle ==
    /\ call = "none"
    /\ fpc = "idle"
    /\ ports_str = <<>>
    /\ ports = <<>>
    /\ parsed_ports = <<>>

\* main is not running.
MainIdle ==
    /\ cli = <<>>
    /\ mpc = "idle"
    /\ found = <<>>
    /\ live_hosts = <<>>
    /\ probed = {}
    /\ scanned = {}
    /\ exit_code = -1

\* No library function is being called.
LibIdle ==
    /\ lpc = "idle"
    /\ lcall = <<>>
    /\ lret = <<>>
    /\ frames = <<>>
    /\ elapsed = FALSE

PureIdle == ParseIdle /\ PortsIdle /\ MainIdle /\ LibIdle

\* ping_sweep(subnet) is entered.
InitParse ==
    /\ StageIdle
    /\ DetectIdle
    /\ spc = "call"
    /\ subnet \in Subnets
    /\ build \in Builds
    /\ parsed = NotParsed
    /\ sent = 0
    /\ PortsIdle
    /\ MainIdle
    /\ LibIdle

\* let ips = parse_subnet(subnet)?;
ParseSubnet ==
    /\ spc = "call"
    /\ parsed' = parse_subnet(subnet, build)
    /\ spc' = CASE parsed'.kind = "ok" -> "spawn"
                [] parsed'.kind = "err" -> "returned_err"
                [] OTHER -> "panicked"
    /\ UNCHANGED <<subnet, build, sent, stageVars, detectVars, portVars, callVars>>

\* One turn of the spawn loop: a probe task for the next address.
SweepSpawn ==
    /\ spc = "spawn"
    /\ sent < Len(parsed.ips)
    /\ sent' = sent + 1
    /\ UNCHANGED <<spc, subnet, build, parsed, stageVars, detectVars, portVars, callVars>>

\* The spawn loop is over; the join loop and Ok(result) follow.
SweepSpawnedAll ==
    /\ spc = "spawn"
    /\ sent = Len(parsed.ips)
    /\ spc' = "returned_ok"
    /\ UNCHANGED <<subnet, build, parsed, sent, stageVars, detectVars, portVars, callVars>>

NextParse == ParseSubnet \/ SweepSpawn \/ SweepSpawnedAll

SpecParse == InitParse /\ [][NextParse]_vars

(***************************************************************************)
(* parse_ports (main.rs) and format_port_ranges (utils/prettyprint.rs)     *)
(***************************************************************************)
\* The --ports strings tried, as characters:
\*   "80"
\*   "1-3"
\*   "3,1,2"
\*   "1-3,2-4"
\*   "22,80,22"
\*   " 80 , 443 "
\*   "5-1"
\*   "abc"
\*   ""
\*   "1-2-3"
\*   "70000"
\*   "65534-65535"
\*   "80,,443"
\*   "8-"
\*   "-8"
\*   "0, 1 - 2"
\*   "+7"
\*   "65535,0"
PortStrings ==
    {<<"8", "0">>,
     <<"1", "-", "3">>,
     <<"3", ",", "1", ",", "2">>,
     <<"1", "-", "3", ",", "2", "-", "4">>,
     <<"2", "2", ",", "8", "0", ",", "2", "2">>,
     <<" ", "8", "0", " ", ",", " ", "4", "4", "3", " ">>,
     <<"5", "-", "1">>,
     <<"a", "b", "c">>,
     <<>>,
     <<"1", "-", "2", "-", "3">>,
     <<"7", "0", "0", "0", "0">>,
     <<"6", "5", "5", "3", "4", "-", "6", "5", "5", "3", "5">>,
     <<"8", "0", ",", ",", "4", "4", "3">>,
     <<"8", "-">>,
     <<"-", "8">>,
     <<"0", ",", " ", "1", " ", "-", " ", "2">>,
     <<"+", "7">>,
     <<"6", "5", "5", "3", "5", ",", "0">>}

\* The ports the lists handed to format_port_ranges are made of.
PortUniverse == {0, 1, 2, 3, 5, 65534, 65535}
\* u16::MAX
U16Max == 65535

\* The strictly ascending, duplicate-free lists over PortUniverse.
AscendingLists == {SortedSeq(S) : S \in SUBSET PortUniverse}

\* <u16 as FromStr>::from_str: an optional '+', then digits, at most u16::MAX.
ParseU16(s) ==
    LET digits == IF s # <<>> /\ s[1] = "+" THEN Tail(s) ELSE s
    IN IF digits = <<>> \/ (\E k \in DOMAIN digits : digits[k] \notin Digits) \/ Len(digits) > 9
       THEN ParseError
       ELSE IF Decimal(digits) > U16Max THEN ParseError ELSE Parsed(Decimal(digits))

\* start..=end
RangeInclusive(start, end) == [i \in 1..(IF end >= start THEN end - start + 1 ELSE 0) |-> start + (i - 1)]

\* The ports one comma-separated part adds: split_once('-') and the two parses,
\* or the single parse; nothing when a parse fails.
PortsOfPart(part) ==
    IF \E k \in DOMAIN part : part[k] = "-"
    THEN LET k == CHOOSE j \in DOMAIN part : part[j] = "-" /\ \A m \in 1..(j - 1) : part[m] # "-"
             start == ParseU16(Trim(SubSeq(part, 1, k - 1)))
             end == ParseU16(Trim(SubSeq(part, k + 1, Len(part))))
         IN IF start.ok /\ end.ok THEN RangeInclusive(start.v, end.v) ELSE <<>>
    ELSE LET one == ParseU16(Trim(part))
         IN IF one.ok THEN <<one.v>> ELSE <<>>

RECURSIVE Concat(_)
\* The concatenation of a sequence of sequences.
Concat(ss) == IF ss = <<>> THEN <<>> ELSE Head(ss) \o Concat(Tail(ss))

\* parse_ports without the final sort_unstable and dedup.
parse_ports_unsorted(str) ==
    LET parts == Split(str, ",")
    IN Concat([k \in DOMAIN parts |-> PortsOfPart(parts[k])])

\* parse_ports: the ports of every part, then sort_unstable and dedup.
parse_ports(str) ==
    LET parts == Split(str, ",")
    IN SortedSeq(Range(Concat([k \in DOMAIN parts |-> PortsOfPart(parts[k])])))

DigitChar(d) ==
    CASE d = 0 -> "0" [] d = 1 -> "1" [] d = 2 -> "2" [] d = 3 -> "3" [] d = 4 -> "4"
      [] d = 5 -> "5" [] d = 6 -> "6" [] d = 7 -> "7" [] d = 8 -> "8" [] OTHER -> "9"

RECURSIVE ToTextReversed(_)
\* The decimal digits of n, lowest first.
ToTextReversed(n) ==
    IF n < 10 THEN <<DigitChar(n)>> ELSE <<DigitChar(n % 10)>> \o ToTextReversed(n \div 10)

RECURSIVE ToText(_)
\* format!("{}", n): the decimal digits of n.
ToText(n) ==
    IF n < 10 THEN <<DigitChar(n)>> ELSE ToText(n \div 10) \o <<DigitChar(n % 10)>>

\* One entry of ranges: format!("{}", start) or format!("{}-{}", start, end).
RangeText(start, end) ==
    IF start = end THEN ToText(start) ELSE ToText(start) \o <<"-">> \o ToText(end)

RECURSIVE JoinWith(_, _)
\* ranges.join(sep)
JoinWith(parts, sep) ==
    IF parts = <<>> THEN <<>>
    ELSE IF Len(parts) = 1 THEN parts[1]
    ELSE parts[1] \o <<sep>> \o JoinWith(Tail(parts), sep)

Formatted(text) == [kind |-> "ok", text |-> text]
FormatPanic == [kind |-> "panic", text |-> <<>>]

RECURSIVE FormatLoop(_, _, _, _, _, _)
\* The loop of format_port_ranges from ports[k] on, and what follows it.  end + 1
\* overflows u16 at 65535: a panic with overflow checks, 0 without.
FormatLoop(list, k, start, end, ranges, b) ==
    IF k > Len(list)
    THEN Formatted(JoinWith(Append(ranges, RangeText(start, end)), ","))
    ELSE IF end = U16Max /\ b = "debug" THEN FormatPanic
    ELSE IF list[k] = (end + 1) % (U16Max + 1)
    THEN FormatLoop(list, k + 1, start, list[k], ranges, b)
    ELSE FormatLoop(list, k + 1, list[k], list[k], Append(ranges, RangeText(start, end)), b)

\* format_port_ranges(ports) as built with profile b.
format_port_ranges(list, b) ==
    IF list = <<>> THEN Formatted(<<>>)
    ELSE FormatLoop(list, 2, list[1], list[1], <<>>, b)

\* parse_ports(ports_str) or format_port_ranges(ports) is entered.
InitPorts ==
    /\ StageIdle
    /\ DetectIdle
    /\ spc = "idle" /\ subnet = <<>> /\ parsed = NotParsed /\ sent = 0
    /\ build \in Builds
    /\ MainIdle
    /\ LibIdle
    /\ parsed_ports = <<>>
    /\ \/ /\ call = "parse_ports"
          /\ fpc = "parse"
          /\ ports_str \in PortStrings
          /\ ports = <<>>
       \/ /\ call = "format_port_ranges"
          /\ fpc = "format"
          /\ ports \in AscendingLists
          /\ ports_str = <<>>

\* format_port_ranges(&ports) returns the compact string.
FormatPorts ==
    /\ fpc = "format"
    /\ LET r == format_port_ranges(ports, build)
       IN /\ ports_str' = r.text
          /\ fpc' = IF r.kind = "ok" THEN "parse" ELSE "panicked"
    /\ UNCHANGED <<call, ports, parsed_ports, parseVars, stageVars, detectVars, callVars>>

\* parse_ports(&ports_str) returns the list.
ParsePorts ==
    /\ fpc = "parse"
    /\ parsed_ports' = parse_ports(ports_str)
    /\ fpc' = "done"
    /\ UNCHANGED <<call, ports_str, ports, parseVars, stageVars, detectVars, callVars>>

NextPorts == FormatPorts \/ ParsePorts

SpecPorts == InitPorts /\ [][NextPorts]_vars

(***************************************************************************)
(* main (main.rs): the driver                                              *)
(***************************************************************************)
\* Largest number of addresses of a target the driver is run on.
MaxSweep == 4

\* let subnet = if cli.ip.contains('/') { cli.ip } else { format!("{}/32", cli.ip) }
Subnet(ip) == IF Contains(ip, <<"/">>) THEN ip ELSE ip \o <<"/", "3", "2">>

\* Cli::parse(): the command lines tried.  --ports is absent, "22,80", "abc" or
\* "65535,0"; --protocols is absent or ssh.
InitMain ==
    /\ StageIdle
    /\ DetectIdle
    /\ PortsIdle
    /\ LibIdle
    /\ spc = "idle" /\ subnet = <<>> /\ parsed = NotParsed /\ sent = 0
    /\ build \in Builds
    /\ cli \in [ip : {s \in Subnets :
                        \A b \in Builds : Len(parse_subnet(Subnet(s), b).ips) <= MaxSweep},
                ports : {None, Some(<<"2", "2", ",", "8", "0">>), Some(<<"a", "b", "c">>),
                         Some(<<"6", "5", "5", "3", "5", ",", "0">>)},
                protocols : {None, Some(<<"Ssh">>)},
                fingerprint : BOOLEAN, tcpscan : BOOLEAN, udpscan : BOOLEAN,
                service_detection : BOOLEAN]
    /\ mpc = "subnet"
    /\ found = <<>>
    /\ live_hosts = <<>>
    /\ probed = {}
    /\ scanned = {}
    /\ exit_code = -1

\* 1. Always perform live host discovery: ping_sweep(&subnet) is called.
MainSubnet ==
    /\ mpc = "subnet"
    /\ subnet' = Subnet(cli.ip)
    /\ spc' = "call"
    /\ mpc' = "sweep"
    /\ UNCHANGED <<build, parsed, sent, cli, found, live_hosts, probed, scanned, exit_code,
                   stageVars, detectVars, portVars, user_ports_arg, libVars>>

\* match ping_sweep(&subnet).await: Err and an empty live set return from main, a
\* panic ends the process with status 101.
MainSweepResult ==
    /\ mpc = "sweep"
    /\ \/ /\ spc = "returned_err"
          /\ found' = <<>> /\ mpc' = "exited" /\ exit_code' = 0
       \/ /\ spc = "panicked"
          /\ found' = <<>> /\ mpc' = "exited" /\ exit_code' = 101
       \/ /\ spc = "returned_ok"
          /\ \E alive \in SUBSET Range(parsed.ips) :
                /\ found' = SelectSeq(parsed.ips, LAMBDA ip : ip \in alive)
                /\ IF alive = {}
                   THEN mpc' = "exited" /\ exit_code' = 0
                   ELSE mpc' = "inputs" /\ UNCHANGED exit_code
    /\ UNCHANGED <<cli, live_hosts, probed, scanned, parseVars,
                   stageVars, detectVars, portVars, user_ports_arg, libVars>>

\* The local host is filtered out of the live hosts, then --ports and --protocols
\* are required.  local is the local IPv4 address when it is one of the hosts found.
MainRequireInputs ==
    /\ mpc = "inputs"
    /\ \E local \in {<<>>} \cup Range(found) :
          live_hosts' = SelectSeq(found, LAMBDA ip : ip # local)
    /\ IF \/ (cli.tcpscan \/ cli.udpscan \/ cli.service_detection \/ cli.fingerprint)
             /\ ~cli.ports.some
          \/ cli.service_detection /\ ~cli.protocols.some
       THEN mpc' = "exited" /\ exit_code' = 1
       ELSE mpc' = "fingerprint" /\ UNCHANGED exit_code
    /\ UNCHANGED <<cli, found, probed, scanned, parseVars,
                   stageVars, detectVars, portVars, user_ports_arg, libVars>>

\* A stage run over the whole block swept instead of the live hosts.
TargetsSwept(st) == {[stage |-> st, ip |-> h] : h \in Range(parsed.ips)}

\* The addresses a stage is run for: live_hosts.iter() / &live_hosts.
Targets(st) == {[stage |-> st, ip |-> h] : h \in Range(live_hosts)}

\* 2. Fingerprinting (if requested): fingerprint_host for every live host.
MainFingerprint ==
    /\ mpc = "fingerprint"
    /\ probed' = probed \cup (IF cli.fingerprint THEN Targets("fingerprint") ELSE {})
    /\ mpc' = "tcpscan"
    /\ UNCHANGED <<cli, found, live_hosts, scanned, exit_code, parseVars,
                   stageVars, detectVars, portVars, user_ports_arg, libVars>>

\* 3. / 4. TCP scan and UDP scan (if requested): tcp_scan / udp_scan over
\* port_range = min_port..(max_port + 1), min_port and max_port the first and the
\* last of the sorted port list.  max_port + 1 is u16 arithmetic: for 65535 it
\* panics in a debug build and wraps to 0 in a release build, which leaves the
\* range min_port..0 empty.
MainPortScan(kind) ==
    /\ mpc = kind
    /\ LET ports_vec == IF cli.ports.some THEN parse_ports(cli.ports.ports) ELSE <<>>
           min_port == ports_vec[1]
           max_port == ports_vec[Len(ports_vec)]
           port_range == IF max_port = U16Max THEN {} ELSE min_port..max_port
       IN IF cli[kind] /\ ports_vec # <<>>
          THEN IF max_port = U16Max /\ build = "debug"
               THEN mpc' = "exited" /\ exit_code' = 101 /\ UNCHANGED <<probed, scanned>>
               ELSE /\ probed' = probed \cup (IF port_range = {} THEN {} ELSE Targets(kind))
                    /\ scanned' = scanned \cup
                          {[stage |-> kind, ip |-> h, port |-> p] :
                              h \in Range(live_hosts), p \in port_range}
                    /\ mpc' = (IF kind = "tcpscan" THEN "udpscan" ELSE "service")
                    /\ UNCHANGED exit_code
          ELSE /\ mpc' = (IF kind = "tcpscan" THEN "udpscan" ELSE "service")
               /\ UNCHANGED <<probed, scanned, exit_code>>
    /\ UNCHANGED <<cli, found, live_hosts, parseVars,
                   stageVars, detectVars, portVars, user_ports_arg, libVars>>

\* 5. Service detection (if requested): service_scan for every live host; main returns.
MainServiceDetection ==
    /\ mpc = "service"
    /\ probed' = probed \cup (IF cli.service_detection THEN Targets("service") ELSE {})
    /\ mpc' = "exited"
    /\ exit_code' = 0
    /\ UNCHANGED <<cli, found, live_hosts, scanned, parseVars,
                   stageVars, detectVars, portVars, user_ports_arg, libVars>>

NextMain ==
    \/ MainSubnet
    \/ ParseSubnet \/ SweepSpawn \/ SweepSpawnedAll
    \/ MainSweepResult
    \/ MainRequireInputs
    \/ MainFingerprint
    \/ \E kind \in {"tcpscan", "udpscan"} : MainPortScan(kind)
    \/ MainServiceDetection

SpecMain == InitMain /\ [][NextMain]_vars

(***************************************************************************)
(* Library functions called on their own: fingerprint_host                 *)
(* (utils/fingerprinting.rs), fingerprint_mac::fingerprint, the standalone *)
(* detectors detect_ssh .. detect_dns, suggest_modules (metasploit_tools)  *)
(* and append_summary_to_csv (utils/reports.rs).                           *)
(***************************************************************************)
\* Largest number of elements of a list handed to suggest_modules or
\* append_summary_to_csv.
MaxList == 2

\* fingerprint_host(ip).  ssh is the read of fingerprint_ssh (a failed connect
\* or read is not ok); http, snmp, netbios, mac, tcpip are what the other probes
\* returned.  The TTL of the host's ping reply is no argument of the function.
fingerprint_host(ssh, http, snmp, netbios, mac, tcpip) ==
    LET banner == IF ssh.ok /\ StartsWith(ssh.data, SSH_) THEN Just(Trim(ssh.data)) ELSE Nothing
        OpenSSH_ == <<"O", "p", "e", "n", "S", "S", "H", "_">>
        \* s.split_whitespace().nth(n - 1).unwrap_or("")
        Word(t, n) ==
            LET starts == {i \in DOMAIN t :
                             t[i] \notin Whitespace /\ (i = 1 \/ t[i - 1] \in Whitespace)}
            IN IF Cardinality(starts) < n THEN <<>>
               ELSE LET b == CHOOSE i \in starts : Cardinality({j \in starts : j < i}) = n - 1
                        e == CHOOSE k \in b..Len(t) :
                                /\ \A m \in b..k : t[m] \notin Whitespace
                                /\ k = Len(t) \/ t[k + 1] \in Whitespace
                    IN SubSeq(t, b, e)
        os == IF banner # Nothing /\ Contains(banner[1], OpenSSH_)
              THEN LET at == CHOOSE i \in DOMAIN banner[1] :
                                 /\ StartsWith(SubSeq(banner[1], i, Len(banner[1])), OpenSSH_)
                                 /\ \A j \in 1..(i - 1) :
                                       ~StartsWith(SubSeq(banner[1], j, Len(banner[1])), OpenSSH_)
                   IN Just(Word(SubSeq(banner[1], at, Len(banner[1])), 2))
              ELSE Nothing
        \* details.get_or_insert_with(String::new).push_str(&format!("\n{label}{v}"))
        Push(d, label, v) ==
            IF v = Nothing THEN d
            ELSE Just((IF d = Nothing THEN <<>> ELSE d[1]) \o <<"\n">> \o label \o v[1])
        d0 == IF banner = Nothing THEN Nothing ELSE Just(<<"S", "S", "H", ":", " ">> \o banner[1])
        d1 == Push(d0, <<"H", "T", "T", "P", ":", " ">>, http)
        d2 == Push(d1, <<"S", "N", "M", "P", ":", " ">>, snmp)
        d3 == Push(d2, <<"N", "e", "t", "B", "I", "O", "S", ":", " ">>, netbios)
        d4 == Push(d3, <<"T", "C", "P", "/", "I", "P", ":", " ">>, tcpip)
    IN [os |-> os, vendor |-> mac, serial |-> Nothing, details |-> d4]

\* The value of a call that panicked.
Panicked == [panic |-> TRUE]

\* fingerprint_mac::fingerprint(ip) up to the read loop.  interfaces is
\* datalink::interfaces(), channel what datalink::channel returned, send what
\* tx.send_to returned; [sent |-> TRUE] is the ARP request sent.
fingerprint_mac(interfaces, channel, send) ==
    LET suitable == {i \in DOMAIN interfaces :
                       interfaces[i].up /\ ~interfaces[i].loopback /\ interfaces[i].ips # <<>>}
        interface == interfaces[CHOOSE i \in suitable : \A j \in suitable : i <= j]
        Failed(msg) == [mac |-> Nothing, vendor |-> Nothing, error |-> Just(msg)]
    IN IF suitable = {} THEN Panicked
       ELSE IF ~interface.mac THEN Panicked
       ELSE IF "v4" \notin Range(interface.ips) THEN Panicked
       ELSE IF channel = "other" THEN Failed("Unhandled channel type")
       ELSE IF channel = "err" THEN Failed("Failed to create datalink channel: {e}")
       ELSE IF send = "err" THEN Failed("Failed to send ARP request: {e:?}")
       ELSE IF send = "none" THEN Failed("Failed to send ARP request: no tx available")
       ELSE [sent |-> TRUE]

\* Number of frames returned by rx.next() that the model keeps a log of.
MaxFrames == 2

\* The frame test with the sender protocol address left out.
arp_reply_any_sender(f) == f.ok /\ f.eth = "arp" /\ f.arp /\ f.op = 2

\* The test of the read loop on what rx.next() returned: an Ethernet frame of
\* ethertype ARP whose payload parses as ARP, with operation Reply (2) and the
\* target as sender protocol address.
arp_reply(f) == f.ok /\ f.eth = "arp" /\ f.arp /\ f.op = 2 /\ f.spa = "ip"

\* detect_ssh::detect keeping the bytes read when they are no SSH banner.
detect_ssh_keep_banner(conn, r1, r2) ==
    IF ~conn
    THEN [banner |-> Nothing, detected |-> FALSE, error |-> Just("Connection failed")]
    ELSE IF r1.ok /\ StartsWith(r1.data, SSH_)
    THEN [banner |-> Just(r1.data), detected |-> TRUE, error |-> Nothing]
    ELSE IF r2.ok /\ StartsWith(r2.data, SSH_)
    THEN [banner |-> Just(r2.data), detected |-> TRUE, error |-> Nothing]
    ELSE [banner |-> IF r2.ok THEN Just(r2.data) ELSE Nothing, detected |-> FALSE,
          error |-> Just("No SSH banner found")]

\* detect_ssh::detect(ip, port): conn is whether the connect succeeded within 8 s,
\* r1 the first read, r2 the read after "\n" was written.
detect_ssh(conn, r1, r2) ==
    IF ~conn
    THEN [banner |-> Nothing, detected |-> FALSE, error |-> Just("Connection failed")]
    ELSE IF r1.ok /\ StartsWith(r1.data, SSH_)
    THEN [banner |-> Just(r1.data), detected |-> TRUE, error |-> Nothing]
    ELSE IF r2.ok /\ StartsWith(r2.data, SSH_)
    THEN [banner |-> Just(r2.data), detected |-> TRUE, error |-> Nothing]
    ELSE [banner |-> Nothing, detected |-> FALSE, error |-> Just("No SSH banner found")]

\* detect_ftp::detect(ip, port): one read after the connect.
detect_ftp(conn, r) ==
    IF ~conn
    THEN [banner |-> Nothing, detected |-> FALSE, error |-> Just("Connection failed")]
    ELSE IF r.ok /\ Contains(r.data, FTP)
    THEN [banner |-> Just(r.data), detected |-> TRUE, error |-> Nothing]
    ELSE [banner |-> Nothing, detected |-> FALSE, error |-> Just("No FTP banner")]

\* detect_smtp::detect(ip, port): one read after the connect.
detect_smtp(conn, r) ==
    IF ~conn
    THEN [banner |-> Nothing, detected |-> FALSE, error |-> Just("Connection failed")]
    ELSE IF r.ok /\ (Contains(r.data, SMTP) \/ Contains(r.data, ESMTP))
    THEN [banner |-> Just(r.data), detected |-> TRUE, error |-> Nothing]
    ELSE [banner |-> Nothing, detected |-> FALSE, error |-> Just("No SMTP banner")]

\* detect_http::detect(ip, port): one read after the HEAD request was written.
detect_http(conn, r) ==
    IF ~conn
    THEN [banner |-> Nothing, detected |-> FALSE, error |-> Just("Connection failed")]
    ELSE IF r.ok /\ (Contains(r.data, HTTP10) \/ Contains(r.data, HTTP11))
    THEN [banner |-> Just(r.data), detected |-> TRUE, error |-> Nothing]
    ELSE [banner |-> Nothing, detected |-> FALSE, error |-> Just("No HTTP banner")]

\* detect_dns::detect(ip, port): bind is whether UdpSocket::bind succeeded, recv
\* the recv_from under the 2 s timeout.
detect_dns(bind, recv) ==
    IF ~bind THEN [detected |-> FALSE, error |-> Just("Bind failed: {e}")]
    ELSE IF recv.ok /\ Len(recv.data) > 0 THEN [detected |-> TRUE, error |-> Nothing]
    ELSE [detected |-> FALSE, error |-> Just("No DNS response")]

\* str::to_lowercase on the ASCII letters.
to_lowercase(t) ==
    LET upper == <<"A", "B", "C", "D", "E", "F", "G", "H", "I", "J", "K", "L", "M", "N", "O", "P", "Q", "R", "S", "T", "U", "V", "W", "X", "Y", "Z">>
        lower == <<"a", "b", "c", "d", "e", "f", "g", "h", "i", "j", "k", "l", "m", "n", "o", "p", "q", "r", "s", "t", "u", "v", "w", "x", "y", "z">>
    IN [i \in DOMAIN t |->
          IF \E k \in DOMAIN upper : upper[k] = t[i]
          THEN lower[CHOOSE k \in DOMAIN upper : upper[k] = t[i]]
          ELSE t[i]]

RECURSIVE suggest_modules(_)
\* suggest_modules(services): the static table, applied to each service in turn.
suggest_modules(services) ==
    IF services = <<>> THEN <<>>
    ELSE LET sv == services[Len(services)]
             name == to_lowercase(sv.service)
             module ==
                 CASE
                    name = <<"s", "s", "h">> -> Just("auxiliary/scanner/ssh/ssh_version")
                 [] name = <<"h", "t", "t", "p">> -> Just("auxiliary/scanner/http/http_version")
                 [] name = <<"h", "t", "t", "p", "s">> -> Just("auxiliary/scanner/http/http_version")
                 [] name = <<"s", "m", "b">> -> Just("exploit/windows/smb/ms17_010_eternalblue")
                 [] name = <<"m", "i", "c", "r", "o", "s", "o", "f", "t", "-", "d", "s">> -> Just("exploit/windows/smb/ms17_010_eternalblue")
                 [] name = <<"f", "t", "p">> -> Just("auxiliary/scanner/ftp/ftp_version")
                 [] name = <<"s", "m", "t", "p">> -> Just("auxiliary/scanner/smtp/smtp_version")
                 [] name = <<"p", "o", "p", "3">> -> Just("auxiliary/scanner/pop3/pop3_version")
                 [] name = <<"i", "m", "a", "p">> -> Just("auxiliary/scanner/imap/imap_version")
                 [] name = <<"m", "y", "s", "q", "l">> -> Just("auxiliary/scanner/mysql/mysql_version")
                 [] name = <<"m", "s", "s", "q", "l">> -> Just("auxiliary/scanner/mssql/mssql_ping")
                 [] name = <<"p", "o", "s", "t", "g", "r", "e", "s", "q", "l">> -> Just("auxiliary/scanner/postgres/postgres_version")
                 [] name = <<"p", "o", "s", "t", "g", "r", "e", "s">> -> Just("auxiliary/scanner/postgres/postgres_version")
                 [] name = <<"r", "d", "p">> -> Just("auxiliary/scanner/rdp/rdp_scanner")
                 [] name = <<"m", "s", "-", "w", "b", "t", "-", "s", "e", "r", "v", "e", "r">> -> Just("auxiliary/scanner/rdp/rdp_scanner")
                 [] name = <<"t", "e", "l", "n", "e", "t">> -> Just("auxiliary/scanner/telnet/telnet_version")
                 [] name = <<"s", "n", "m", "p">> -> Just("auxiliary/scanner/snmp/snmp_enum")
                 [] name = <<"o", "r", "a", "c", "l", "e">> -> Just("auxiliary/scanner/oracle/tnslsnr_version")
                 [] name = <<"r", "e", "d", "i", "s">> -> Just("auxiliary/scanner/redis/redis_server")
                 [] name = <<"v", "n", "c">> -> Just("auxiliary/scanner/vnc/vnc_none_auth")
                 [] name = <<"l", "d", "a", "p">> -> Just("auxiliary/scanner/ldap/ldap_search")
                   [] OTHER -> Nothing
             before == suggest_modules(SubSeq(services, 1, Len(services) - 1))
         IN IF module = Nothing THEN before
            ELSE Append(before, [port |-> sv.port, service |-> sv.service, module |-> module[1]])

\* append_summary_to_csv(filename, ip, results): the rows written after the header
\* line, one per key of protocol_counts (in the HashMap's order, which the caller
\* does not control): the protocol, ports.len() and the ports joined with ",".
append_summary_to_csv(results) ==
    LET names == UNION {Range(results[i].protocol_failures) : i \in DOMAIN results}
        RECURSIVE Pushed(_, _)
        \* protocol_counts[name] after the first k results
        Pushed(name, k) ==
            IF k = 0 THEN <<>>
            ELSE Pushed(name, k - 1) \o
                 [j \in 1..Cardinality({m \in DOMAIN results[k].protocol_failures :
                                          results[k].protocol_failures[m] = name})
                    |-> results[k].port]
    IN {[protocol |-> name,
         fail_count |-> Len(Pushed(name, Len(results))),
         ports |-> JoinWith([j \in DOMAIN Pushed(name, Len(results)) |->
                               ToText(Pushed(name, Len(results))[j])], <<",">>)]
        : name \in names}

\* One library function is called with one argument list.
InitLib ==
    /\ StageIdle
    /\ DetectIdle
    /\ ParseIdle
    /\ PortsIdle
    /\ MainIdle
    /\ lpc = "call"
    /\ lret = <<>>
    /\ frames = <<>>
    /\ elapsed = FALSE
    /\ \/ /\ lcall \in [fn : {"fingerprint_host"}, ttl : {1, 64, 128, 255},
                        ssh : Reads({<<"S", "S", "H", "-", "2", ".", "0", "-", "O", "p", "e", "n", "S", "S", "H", "_", "7", ".", "6", "p", "1">>,
                                     <<"S", "S", "H", "-", "2", ".", "0", "-", "O", "p", "e", "n", "S", "S", "H", "_", "7", ".", "6", "p", "1", " ", "U", "b", "u", "n", "t", "u", "-", "4", "\r", "\n">>,
                                     <<"S", "S", "H", "-", "2", ".", "0", "-", "d", "r", "o", "p", "b", "e", "a", "r">>,
                                     HTTP11}),
                        http : {Nothing, Just(HTTP11)},
                        other : {Nothing, Just(<<"x">>)}]
       \/ /\ lcall \in [fn : {"fingerprint_mac"},
                        interfaces :
                            LET Iface(up, lo, ips, mac) ==
                                    [up |-> up, loopback |-> lo, ips |-> ips, mac |-> mac]
                                lo == Iface(TRUE, TRUE, <<"v4", "v6">>, FALSE)
                            IN {<<>>, <<lo>>,
                                <<lo, Iface(TRUE, FALSE, <<"v4">>, TRUE)>>,
                                <<lo, Iface(FALSE, FALSE, <<"v4">>, TRUE)>>,
                                <<lo, Iface(TRUE, FALSE, <<>>, TRUE)>>,
                                <<lo, Iface(TRUE, FALSE, <<"v6">>, TRUE)>>,
                                <<lo, Iface(TRUE, FALSE, <<"v6", "v4">>, FALSE)>>,
                                <<Iface(TRUE, FALSE, <<"v6">>, TRUE),
                                  Iface(TRUE, FALSE, <<"v4">>, TRUE)>>},
                        channel : {"ethernet", "other", "err"},
                        send : {"ok", "err", "none"}]
       \/ /\ lcall \in [fn : {"detect_ssh", "detect_ftp", "detect_smtp", "detect_http"},
                        conn : BOOLEAN, r1 : Reads(Banners), r2 : Reads(Banners)]
          /\ lcall.fn # "detect_ssh" => lcall.r2 = lcall.r1
       \/ /\ lcall \in [fn : {"detect_dns"}, bind : BOOLEAN, recv : Reads(Datagrams)]
       \/ /\ LET Info(p, t) == [port |-> p, service |-> t, banner |-> Nothing]
                 ssh == Info(22, <<"s", "s", "h">>)
                 http == Info(80, <<"h", "t", "t", "p">>)
                 ds == Info(445, <<"m", "i", "c", "r", "o", "s", "o", "f", "t", "-", "d", "s">>)
                 ftp == Info(21, <<"f", "t", "p">>)
                 mysql == Info(3306, <<"m", "y", "s", "q", "l">>)
             IN lcall \in [fn : {"suggest_modules"},
                           services :
                               SeqsUpTo({ssh, Info(2222, <<"S", "S", "H">>), Info(8080, <<"H", "t", "t", "p">>), ds,
                                         Info(70, <<"g", "o", "p", "h", "e", "r">>), Info(22, <<"s", "s", "h", "d">>), mysql},
                                        MaxList)
                               \cup {<<ssh, http, ds, ftp, mysql>>}]
       \/ /\ LET Res(p, fs) == [port |-> p, protocol_failures |-> fs]
             IN lcall \in [fn : {"append_summary_to_csv"},
                           open : BOOLEAN,
                           file : {<<>>, <<"Timestamp,Target,Protocol,FailCount,Ports">>},
                           results :
                               SeqsUpTo({Res(21, <<"FTP">>), Res(80, <<"FTP", "HTTP">>),
                                         Res(25, <<"FTP", "FTP">>), Res(53, <<>>)},
                                        MaxList)]

\* fingerprint_host(ip) returns.
FingerprintHost ==
    /\ lpc = "call" /\ lcall.fn = "fingerprint_host"
    /\ lret' = fingerprint_host(lcall.ssh, lcall.http, lcall.other, lcall.other,
                                lcall.other, lcall.other)
    /\ lpc' = "returned"
    /\ UNCHANGED <<lcall, frames, elapsed, stageVars, detectVars, parseVars, portVars, user_ports_arg, mainVars>>

\* fingerprint_mac::fingerprint(ip) panics, returns a failure, or has sent the
\* ARP request and enters the read loop.
FingerprintMac ==
    /\ lpc = "call" /\ lcall.fn = "fingerprint_mac"
    /\ lret' = fingerprint_mac(lcall.interfaces, lcall.channel, lcall.send)
    /\ lpc' = IF lret' = Panicked THEN "panicked"
              ELSE IF lret' = [sent |-> TRUE] THEN "loop"
              ELSE "returned"
    /\ UNCHANGED <<lcall, frames, elapsed, stageVars, detectVars, parseVars, portVars, user_ports_arg, mainVars>>

\* while start.elapsed() < Duration::from_secs(1): the loop head, and the return
\* after the loop.
ArpLoopCheck ==
    /\ lpc = "loop"
    /\ IF elapsed
       THEN /\ lret' = [mac |-> Nothing, vendor |-> Nothing,
                        error |-> Just("No ARP reply received")]
            /\ lpc' = "returned"
       ELSE /\ lpc' = "next"
            /\ UNCHANGED lret
    /\ UNCHANGED <<lcall, frames, elapsed, stageVars, detectVars, parseVars, portVars, user_ports_arg, mainVars>>

\* rx.next() returns, with a frame or an error (the channel has no read timeout:
\* the call returns only when the interface delivers something), and the body of
\* the loop examines it.  frames logs the first MaxFrames of them; frames the
\* loop skips keep arriving after that.
ArpNext ==
    /\ lpc = "next"
    /\ \E f \in [ok : {TRUE}, eth : {"arp"}, arp : {TRUE}, op : {1, 2},
                 spa : {"ip", "other"}, sha : {"m1", "m2"}]
               \cup {[ok |-> TRUE, eth |-> "ipv4", arp |-> FALSE, op |-> 0, spa |-> "", sha |-> ""],
                     [ok |-> TRUE, eth |-> "arp", arp |-> FALSE, op |-> 0, spa |-> "", sha |-> ""],
                     [ok |-> FALSE, eth |-> "", arp |-> FALSE, op |-> 0, spa |-> "", sha |-> ""]} :
          /\ Len(frames) < MaxFrames \/ ~arp_reply(f)
          /\ frames' = IF Len(frames) < MaxFrames THEN Append(frames, f) ELSE frames
          /\ IF arp_reply(f)
             THEN /\ lret' = [mac |-> Just(f.sha), vendor |-> Nothing, error |-> Nothing]
                  /\ lpc' = "returned"
             ELSE /\ lpc' = "loop"
                  /\ UNCHANGED lret
    /\ UNCHANGED <<lcall, elapsed, stageVars, detectVars, parseVars, portVars, user_ports_arg, mainVars>>

\* The second after the ARP request passes.
ArpTick ==
    /\ lpc \in {"loop", "next"}
    /\ ~elapsed
    /\ elapsed' = TRUE
    /\ UNCHANGED <<lpc, lcall, lret, frames, stageVars, detectVars, parseVars, portVars, user_ports_arg, mainVars>>

\* A standalone detector returns.
Detect(fn) ==
    /\ lpc = "call" /\ lcall.fn = fn
    /\ lret' = CASE fn = "detect_ssh" -> detect_ssh(lcall.conn, lcall.r1, lcall.r2)
                 [] fn = "detect_ftp" -> detect_ftp(lcall.conn, lcall.r1)
                 [] fn = "detect_smtp" -> detect_smtp(lcall.conn, lcall.r1)
                 [] fn = "detect_http" -> detect_http(lcall.conn, lcall.r1)
                 [] fn = "detect_dns" -> detect_dns(lcall.bind, lcall.recv)
    /\ lpc' = "returned"
    /\ UNCHANGED <<lcall, frames, elapsed, stageVars, detectVars, parseVars, portVars, user_ports_arg, mainVars>>

\* suggest_modules(&services) returns.
SuggestModules ==
    /\ lpc = "call" /\ lcall.fn = "suggest_modules"
    /\ lret' = suggest_modules(lcall.services)
    /\ lpc' = "returned"
    /\ UNCHANGED <<lcall, frames, elapsed, stageVars, detectVars, parseVars, portVars, user_ports_arg, mainVars>>

\* append_summary_to_csv returns: Err and nothing written when the file cannot be
\* opened, otherwise the file with the header line and the rows appended.
AppendSummaryToCsv ==
    /\ lpc = "call" /\ lcall.fn = "append_summary_to_csv"
    /\ IF ~lcall.open
       THEN lret' = [ok |-> FALSE, file |-> lcall.file]
       ELSE LET rows == append_summary_to_csv(lcall.results)
            IN \E order \in [1..Cardinality(rows) -> rows] :
                  /\ \A i, j \in DOMAIN order : order[i] = order[j] => i = j
                  /\ lret' = [ok |-> TRUE,
                              file |-> lcall.file
                                       \o <<"Timestamp,Target,Protocol,FailCount,Ports">>
                                       \o order]
    /\ lpc' = "returned"
    /\ UNCHANGED <<lcall, frames, elapsed, stageVars, detectVars, parseVars, portVars, user_ports_arg, mainVars>>

NextLib ==
    \/ FingerprintHost
    \/ FingerprintMac
    \/ ArpLoopCheck
    \/ ArpNext
    \/ ArpTick
    \/ \E fn \in {"detect_ssh", "detect_ftp", "detect_smtp", "detect_http", "detect_dns"} :
          Detect(fn)
    \/ SuggestModules
    \/ AppendSummaryToCsv

SpecLib == InitLib /\ [][NextLib]_vars

\* The calls run on and the clock advances; nothing obliges the network to deliver
\* a frame to rx.next().
FairSpecLib ==
    SpecLib /\ WF_vars(FingerprintMac) /\ WF_vars(ArpLoopCheck) /\ WF_vars(ArpTick)

\* detect_service(ip, port, protocols) is entered.
InitDetect ==
    /\ StageIdle
    /\ PureIdle
    /\ dpc = "loop"
    /\ port \in DetectPorts
    /\ protocols \in SeqsUpTo(Protocol, MaxProtocols)
    /\ idx = 1
    /\ errors = <<>>
    /\ protocol_failures = <<>>
    /\ attempted = <<>>
    /\ io = <<>>
    /\ generic = 0
    /\ ret = NoResult

NextDetect ==
    \/ ProbeSsh
    \/ \E proto \in BannerProtocols : ProbeBanner(proto)
    \/ ProbeHttps
    \/ ProbeDns
    \/ GenericBanner

SpecDetect == InitDetect /\ [][NextDetect]_vars

(***************************************************************************)
(* The stages' specification.                                              *)
(***************************************************************************)
Init ==
    /\ InitPing \/ InitScan \/ InitService \/ InitFingerprint
    /\ joined = 0
    /\ result = EmptyResult
    /\ final = EmptyResult
    /\ DetectIdle
    /\ PureIdle

Next ==
    \/ PingSpawn \/ PingSpawned \/ PingJoin \/ PingReturn
    \/ ScanSpawn \/ ScanSpawned \/ ScanJoin \/ ScanHostDone
    \/ ServicePull \/ ServiceCollected
    \/ FingerprintJoined
    \/ \E i \in DOMAIN tasks : PingOpenChannel(i)
    \/ \E i \in DOMAIN tasks : PingSend(i)
    \/ \E i \in DOMAIN tasks : PingReceive(i)
    \/ \E i \in DOMAIN tasks : TaskPanics(i)
    \/ \E i \in DOMAIN tasks : TcpOpenSocket(i)
    \/ \E i \in DOMAIN tasks : TcpConnectDone(i)
    \/ \E i \in DOMAIN tasks : UdpBind(i)
    \/ \E i \in DOMAIN tasks : UdpExchangeDone(i)
    \/ \E i \in DOMAIN tasks : ServiceAcquire(i)
    \/ \E i \in DOMAIN tasks : ServiceConnect(i)
    \/ \E i \in DOMAIN tasks : ServiceComplete(i)
    \/ \E i \in DOMAIN tasks : FingerprintConnect(i)
    \/ \E i \in DOMAIN tasks : FingerprintProbeDone(i)

Spec == Init /\ [][Next]_vars

\* The executor keeps polling ready tasks: some enabled step is eventually taken.
FairSpec == Spec /\ WF_vars(Next)

(***************************************************************************)
(* Claims about the stages (Spec, FairSpec).                               *)
(***************************************************************************)
Keys(es) == {es[k][1] : k \in DOMAIN es}

\* C1: after ping_sweep returns Ok, every enumerated target is in exactly one of
\* live_hosts, not_alive_hosts and errors: the three are pairwise disjoint, hold
\* no address that was not a target, and hold every target once, however the
\* per-address task ended.
C1_SweepPartitionsTargets ==
    (stage = "ping" /\ pc = "done") =>
        LET L == Range(result.live_hosts)
            N == Range(result.not_alive_hosts)
            E == Keys(result.errors)
        IN /\ L \cap N = {} /\ L \cap E = {} /\ N \cap E = {}
           /\ L \cup N \cup E = Range(items)
           /\ Len(result.live_hosts) + Len(result.not_alive_hosts) + Len(result.errors)
                = Len(items)

\* C2: in ping_sweep, tcp_scan, udp_scan and service_scan the number of probes
\* started and not yet completed never exceeds the stage's semaphore capacity.
C2_InFlightWithinCapacity ==
    stage \in GatedStages => InFlight <= Capacity(stage)

\* C2 witness: a TCP scan with every permit taken and a port still to spawn.
C2_SpawnerWaitsAtCapacity ==
    /\ stage = "tcp" /\ pc = "spawn"
    /\ InFlight = Capacity(stage)
    /\ Len(tasks) < Len(items)

\* C3: in every stage, fingerprinting included, a probe holds a permit whenever
\* it has a socket open, and no finished probe keeps its permit: the permits
\* held and the permits available add up to the capacity.
C3_PermitHeldWhileSocketOpen ==
    /\ \A i \in DOMAIN tasks : tasks[i].sock => tasks[i].permit
    /\ \A i \in DOMAIN tasks : tasks[i].st = "done" => ~tasks[i].permit
    /\ stage \in GatedStages =>
          permits + Cardinality({i \in DOMAIN tasks : tasks[i].permit}) = Capacity(stage)

\* C4: under the executor's weak fairness alone, every run of a gated stage
\* terminates with every probe completed and all permits back in the semaphore.
C4_GatedStagesTerminate ==
    (stage \in GatedStages) ~>
        (/\ pc = "done"
         /\ permits = Capacity(stage)
         /\ \A i \in DOMAIN tasks : tasks[i].st = "done")

\* C4 witness: a TCP scan of more ports than permits, whose spawn loop had to
\* wait, has returned every probe's outcome with all permits available.
C4_ScanReturnedAfterWaiting ==
    /\ stage = "tcp" /\ pc = "done"
    /\ Len(items) > Capacity(stage)
    /\ Len(final.open_ports) + Len(final.errors) = Len(items)
    /\ permits = Capacity(stage)

\* C10 (as stated): in tcp_scan only a connect success is recorded as open, and
\* a refused connect or a connect timeout leaves no entry in errors.
C10_RefusedAndTimeoutLeaveNoError ==
    stage = "tcp" =>
        \A k \in DOMAIN final.errors :
            /\ final.errors[k][2].what # "Timeout connecting"
            /\ final.errors[k][2].e # "ConnectionRefused"

\* C10 (amended): for every (host, port) tcp_scan has joined, a connect success
\* puts the pair in open_ports and leaves no error; every other outcome (refused,
\* timeout, local failure, task failure) adds one errors entry for the host and
\* no open entry.
C10_EveryFailureIsAnError ==
    (stage = "tcp" /\ pc = "join") =>
        /\ Len(result.open_ports) + Len(result.errors) = joined
        /\ \A k \in 1..joined :
              LET t == tasks[k]
                  pair == <<hosts[hostIdx], t.item>>
              IN IF t.out.kind = "open"
                 THEN /\ pair \in Range(result.open_ports)
                      /\ \A e \in Range(result.errors) : e[2].port # t.item
                 ELSE /\ pair \notin Range(result.open_ports)
                      /\ \E j \in DOMAIN result.errors :
                            /\ result.errors[j][1] = hosts[hostIdx]
                            /\ result.errors[j][2] =
                                 (IF t.out.kind = "err" THEN t.out.msg
                                  ELSE Msg("Task failed", -1, ""))
        /\ \A c \in {"connected", "io_error", "elapsed"}, e \in ConnectErrors :
              (TcpProbeResult(0, [kind |-> c, e |-> e]).kind = "open") <=> (c = "connected")

\* C10 witness: a finished TCP scan that recorded a refused connect and a
\* connect timeout as errors and a successful connect as open.
C10_RefusedAndTimeoutRecorded ==
    /\ stage = "tcp" /\ pc = "join" /\ joined = 2
    /\ Len(result.open_ports) = 0
    /\ result.errors[1][2].e = "ConnectionRefused"
    /\ result.errors[2][2].what = "Timeout connecting"

(***************************************************************************)
(* Claims about detect_service (SpecDetect).                               *)
(***************************************************************************)
ProtocolNames == {ServiceName(p) : p \in Protocol}
Identified == dpc = "done" /\ ret.service # Nothing /\ ret.service[1].name \in ProtocolNames
\* The reads of the probe run last that returned bytes.
BytesRead == {io[k].data : k \in {j \in DOMAIN io : io[j].ev = "read" /\ io[j].ok}}

\* C5 (as stated): every result has service set, and a null error comes with
\* empty protocol_failures.
C5_NoErrorMeansNoFailures ==
    dpc = "done" =>
        /\ ret.service # Nothing
        /\ ret.error = Nothing => ret.protocol_failures = <<>>

\* C5 (amended): every result has service set; only an "Unknown Service" result
\* carries an error, and an "Unknown Service" result with a null error has empty
\* protocol_failures.
C5_UnknownWithoutErrorHasNoFailures ==
    dpc = "done" =>
        /\ ret.service # Nothing
        /\ ret.error # Nothing => ret.service[1].name = "Unknown Service"
        /\ (ret.error = Nothing /\ ret.service[1].name = "Unknown Service")
              => ret.protocol_failures = <<>>

\* C5 witness: protocols were requested, none matched, and the result is
\* "Unknown Service" with a null error and no failures.
C5_UnknownWithNullError ==
    /\ dpc = "done"
    /\ protocols # <<>>
    /\ ret.service = Just(Service("Unknown Service"))
    /\ ret.error = Nothing
    /\ ret.protocol_failures = <<>>

\* C6: the protocols are probed in list order; a probe whose accept condition
\* is met returns that protocol's name with a null error, before any later
\* protocol and before the generic banner read; a probe whose condition is not
\* met does not return.
C6_FirstMatchWins ==
    /\ attempted = SubSeq(protocols, 1, Len(attempted))
    /\ (generic = 0 /\ attempted # <<>>) =>
          LET proto == attempted[Len(attempted)]
          IN IF \E b \in BytesRead : Accepts(proto, b)
             THEN /\ dpc = "done"
                  /\ ret.service = Just(Service(ServiceName(proto)))
                  /\ ret.error = Nothing
                  /\ Len(attempted) = idx
             ELSE dpc = "loop" /\ Len(attempted) = idx - 1
    /\ generic > 0 => Len(attempted) = Len(protocols) /\ ~Identified

\* C6 witness: the second of two protocols matched, so the first was tried before.
C6_SecondProtocolMatched ==
    /\ Identified
    /\ Len(protocols) = 2 /\ protocols[1] # protocols[2]
    /\ attempted = protocols
    /\ ret.service[1].name = ServiceName(protocols[2])

\* C7: protocol_failures holds exactly the protocols whose probe was attempted
\* and did not identify the service.
C7_FailuresAreTheFailedProbes ==
    dpc = "done" =>
        LET failed == IF Identified THEN SubSeq(attempted, 1, Len(attempted) - 1)
                      ELSE attempted
        IN Range(ret.protocol_failures) = {ServiceName(failed[k]) : k \in DOMAIN failed}

\* C8: when no protocol matched there is exactly one generic banner read; text
\* it yields becomes "Banner: <trimmed>"; otherwise the result is "Unknown
\* Service" whose error joins a reason for every failed probe, so it is non-null
\* when a protocol was requested.
C8_FallbackReportsEveryFailure ==
    (dpc = "done" /\ ~Identified) =>
        /\ generic = 1
        /\ IF \E b \in BytesRead : Trim(b) # <<>>
           THEN \E b \in BytesRead : ret.service = Just(BannerService(b))
           ELSE /\ ret.service = Just(Service("Unknown Service"))
                /\ protocols # <<>> => ret.error # Nothing
                /\ ret.error # Nothing => Len(ret.error[1]) = 2 * Len(protocols) - 1

\* C9: whatever the port, every probe goes to the port the caller gave, the
\* probes attempted are the caller's list up to the first match, and an SSH
\* banner read by the SSH probe is identified as SSH.
C9_ProbesIgnoreCanonicalPorts ==
    /\ \A k \in DOMAIN io : io[k].ev \in {"connect", "send_to"} => io[k].to = port
    /\ dpc = "done" =>
          /\ attempted = SubSeq(protocols, 1, Len(attempted))
          /\ Len(attempted) < Len(protocols) => Identified
    /\ (generic = 0 /\ attempted # <<>> /\ attempted[Len(attempted)] = "Ssh"
          /\ \E b \in BytesRead : StartsWith(b, SSH_))
          => ret.service = Just(Service("SSH"))

\* C9 witness: SSH identified on port 30778 after another protocol failed there.
C9_SshOnPort30778 ==
    /\ dpc = "done" /\ port = 30778
    /\ Len(attempted) = 2
    /\ ret.service = Just(Service("SSH"))

(***************************************************************************)
(* Claims about udp_scan and the scans' results (Spec).                    *)
(***************************************************************************)
\* C11 (as stated): in udp_scan a send error or a receive timeout leaves no
\* entry in errors; only local socket failures do.
C11_SilenceLeavesNoError ==
    stage = "udp" =>
        \A k \in DOMAIN final.errors :
            /\ final.errors[k][2].what # "Timeout on"
            /\ final.errors[k][2].e # "NetworkUnreachable"

\* C11 (amended): for every (host, port) udp_scan has joined, a received
\* datagram puts the pair in open_ports and leaves no error; every other outcome
\* (bind, connect or send error, receive error, timeout, task failure) adds one
\* errors entry for the host and no open entry.
C11_EveryUdpFailureIsAnError ==
    /\ (stage = "udp" /\ pc = "join") =>
        /\ Len(result.open_ports) + Len(result.errors) = joined
        /\ \A k \in 1..joined :
              LET t == tasks[k]
                  pair == <<hosts[hostIdx], t.item>>
              IN IF t.out.kind = "open"
                 THEN /\ pair \in Range(result.open_ports)
                      /\ \A e \in Range(result.errors) : e[2].port # t.item
                 ELSE /\ pair \notin Range(result.open_ports)
                      /\ \E j \in DOMAIN result.errors :
                            /\ result.errors[j][1] = hosts[hostIdx]
                            /\ result.errors[j][2] =
                                 (IF t.out.kind = "err" THEN t.out.msg
                                  ELSE Msg("Task failed", -1, ""))
    /\ \A c \in {"received", "elapsed", "recv_error", "io_error"}, p \in 0..MaxPorts :
          LET r == UdpProbeResult(p, [kind |-> c, e |-> "NetworkUnreachable"])
          IN /\ (r.kind = "open") <=> (c = "received")
             /\ (c # "received") => (r.kind = "err" /\ r.msg.port = p)

\* C11 witness: a UDP scan joined a probe that timed out and a probe whose send
\* failed, and recorded both as errors.
C11_TimeoutAndSendErrorRecorded ==
    /\ stage = "udp" /\ pc = "join" /\ joined = 2
    /\ Len(result.open_ports) = 0
    /\ result.errors[1][2].what = "Timeout on"
    /\ result.errors[2][2].e = "NetworkUnreachable"

\* C12: when the scan of a host with a non-empty port range ends and none of its
\* probes succeeded, tcp_scan / udp_scan add no open entry and one error entry
\* per probe, each keyed by that host, so errors is non-empty.
C12_UnreachableHostYieldsOnlyErrors ==
    [][(/\ stage \in {"tcp", "udp"}
        /\ hostIdx' = hostIdx + 1
        /\ items # <<>>
        /\ \A k \in DOMAIN tasks : tasks[k].out.kind # "open")
       => /\ final'.open_ports = final.open_ports
          /\ Len(final'.errors) = Len(final.errors) + Len(items)
          /\ final'.errors # <<>>
          /\ \A j \in (Len(final.errors) + 1)..Len(final'.errors) :
                final'.errors[j][1] = hosts[hostIdx]]_vars

\* C12 witness: a scan of one host and two ports returned no open port and two
\* errors.
C12_ScanOfUnreachableHostReturned ==
    /\ stage \in {"tcp", "udp"} /\ pc = "done"
    /\ Len(hosts) = 1 /\ Len(items) = 2
    /\ final.open_ports = <<>>
    /\ Len(final.errors) = 2

\* C13: with an empty port range tcp_scan and udp_scan spawn no probe for any
\* host, and open_ports and errors stay empty until they return.
C13_EmptyRangeSendsNothing ==
    /\ \A p \in 0..MaxPorts : PortRange(p, p) = <<>>
    /\ (stage \in {"tcp", "udp"} /\ items = <<>>) =>
          /\ tasks = <<>>
          /\ permits = Capacity(stage)
          /\ result.open_ports = <<>> /\ result.errors = <<>>
          /\ final.open_ports = <<>> /\ final.errors = <<>>

\* C13 witness: a scan of two hosts over the empty range has returned.
C13_EmptyRangeScanReturned ==
    /\ stage \in {"tcp", "udp"} /\ pc = "done"
    /\ Len(hosts) = 2 /\ hostIdx = 3
    /\ items = <<>>

(***************************************************************************)
(* Claims about ping_sweep and parse_subnet.                               *)
(***************************************************************************)
\* C14: after a ping sweep a target is in live_hosts if and only if an Echo
\* Reply from that target reached its probe within the timeout, whatever other
\* packets arrived before it.
C14_LiveIffValidReply ==
    (stage = "ping" /\ pc = "done") =>
        \A k \in DOMAIN tasks :
            (tasks[k].item \in Range(result.live_hosts)) <=> tasks[k].reply

\* C15: a target whose raw channel could not be created or whose send failed is
\* recorded in errors under its own address with the message and in no other
\* list; the other targets are still swept and joined, and when every target
\* failed that way the result is all-error with no live host.
C15_ChannelFailureIsPerAddress ==
    LET ChannelFailures ==
            {"Failed to create transport channel", "Failed to send ICMP request"}
    IN (stage = "ping" /\ pc \in {"join", "done"}) =>
        /\ \A k \in 1..joined :
              (tasks[k].out.kind = "err" /\ tasks[k].out.msg.what \in ChannelFailures) =>
                  /\ <<tasks[k].item, tasks[k].out.msg>> \in Range(result.errors)
                  /\ tasks[k].item \notin Range(result.live_hosts)
                  /\ tasks[k].item \notin Range(result.not_alive_hosts)
        /\ Len(tasks) = Len(items)
        /\ Len(result.live_hosts) + Len(result.not_alive_hosts) + Len(result.errors) = joined
        /\ pc = "done" => joined = Len(items)
        /\ (pc = "done" /\ \A k \in DOMAIN tasks :
                tasks[k].out.kind = "err" /\ tasks[k].out.msg.what \in ChannelFailures) =>
              /\ result.live_hosts = <<>> /\ result.not_alive_hosts = <<>>
              /\ Keys(result.errors) = Range(items)

\* C15 witness: a sweep of two addresses, neither of which could get a raw
\* channel, has returned with both addresses in errors.
C15_AllErrorSweepReturned ==
    /\ stage = "ping" /\ pc = "done"
    /\ Len(items) = 2
    /\ \A k \in DOMAIN tasks : tasks[k].out.msg.what = "Failed to create transport channel"
    /\ Len(result.errors) = 2
    /\ result.live_hosts = <<>>

\* The subnet argument split as parse_subnet splits it.
SubnetParts == Split(subnet, "/")
\* The argument is A.B.C.D/N with a numeric N of at most 32.
ValidCidr ==
    /\ Len(SubnetParts) = 2
    /\ ParseIpv4(SubnetParts[1]).ok
    /\ ParseU32(SubnetParts[2]).ok
    /\ ParseU32(SubnetParts[2]).v <= 32
\* C16: for a valid A.B.C.D/N, parse_subnet returns Ok with 2^(32-N) addresses,
\* pairwise distinct and numerically ascending, among them the network and the
\* broadcast address of the block.
C16_EnumeratesTheWholeBlock ==
    LET \* low bits of octet j (1 is the top octet) that are host bits of a /n block
        HostBits(j, n) ==
            LET h == (32 - n) - 8 * (4 - j)
            IN IF h < 0 THEN 0 ELSE IF h > 8 THEN 8 ELSE h
        NetworkAddress(o, n) == [j \in 1..4 |-> o[j] - (o[j] % Pow2(HostBits(j, n)))]
        BroadcastAddress(o, n) ==
            [j \in 1..4 |-> NetworkAddress(o, n)[j] + Pow2(HostBits(j, n)) - 1]
        AddressBelow(a, b) ==
            \E j \in 1..4 : a[j] < b[j] /\ \A m \in 1..(j - 1) : a[m] = b[m]
    IN (spc # "call" /\ ValidCidr) =>
        LET base == ParseIpv4(SubnetParts[1]).v
            n == ParseU32(SubnetParts[2]).v
            ips == parsed.ips
        IN /\ parsed.kind = "ok"
           /\ IF n = 0 THEN Len(ips) > 0 ELSE Len(ips) = Pow2(32 - n)
           /\ \A k \in 1..(Len(ips) - 1) : AddressBelow(ips[k], ips[k + 1])
           /\ NetworkAddress(base, n) \in Range(ips)
           /\ BroadcastAddress(base, n) \in Range(ips)

\* C17 (as stated): bad input is rejected with InvalidTargetFormat,
\* InvalidAddress, InvalidPrefix (prefix not a number) or PrefixOutOfRange
\* (prefix a number above 32), decided in that order, with no address list, and
\* ping_sweep returns that error with no probe sent.
C17_FourTypedErrors ==
    LET \* the typed error a message of parse_subnet stands for
        ErrorType(msg) ==
            CASE msg = "Invalid subnet format. Use CIDR notation (e.g., 192.168.1.0/24)."
                    -> "InvalidTargetFormat"
              [] msg = "Invalid IP address." -> "InvalidAddress"
              [] msg = "Invalid prefix." -> "InvalidPrefix"
              [] OTHER -> "none"
    IN (spc # "call" /\ ~ValidCidr) =>
        /\ parsed.kind = "err" /\ parsed.ips = <<>> /\ sent = 0 /\ spc = "returned_err"
        /\ ErrorType(parsed.msg) =
              (IF Len(SubnetParts) # 2 THEN "InvalidTargetFormat"
               ELSE IF ~ParseIpv4(SubnetParts[1]).ok THEN "InvalidAddress"
               ELSE IF ~ParseU32(SubnetParts[2]).ok THEN "InvalidPrefix"
               ELSE "PrefixOutOfRange")

\* C17 (amended): bad input is rejected with a message and no address list: the
\* format message when the string does not split into two parts, "Invalid IP
\* address." when the base does not parse, and "Invalid prefix." when the prefix
\* is not a number or is above 32, decided in that order; ping_sweep returns that
\* message with no probe sent.
C17_ThreeMessagesInOrder ==
    (spc # "call" /\ ~ValidCidr) =>
        /\ parsed.kind = "err" /\ parsed.ips = <<>> /\ sent = 0 /\ spc = "returned_err"
        /\ parsed.msg =
              (IF Len(SubnetParts) # 2
               THEN "Invalid subnet format. Use CIDR notation (e.g., 192.168.1.0/24)."
               ELSE IF ~ParseIpv4(SubnetParts[1]).ok THEN "Invalid IP address."
               ELSE "Invalid prefix.")

\* C17 witness: 10.0.0.0/33 was rejected with "Invalid prefix.", the message a
\* non-numeric prefix gets.
C17_Prefix33Rejected ==
    /\ spc = "returned_err"
    /\ subnet = <<"1", "0", ".", "0", ".", "0", ".", "0", "/", "3", "3">>
    /\ parsed.msg = "Invalid prefix."
    /\ parse_subnet(<<"1", "0", ".", "0", ".", "0", ".", "0", "/", "x">>, build).msg = parsed.msg

\* C18: for a valid A.B.C.D/0 the address count does not overflow: parse_subnet
\* returns Ok with a non-empty list.
C18_PrefixZeroDoesNotWrap ==
    (spc # "call" /\ ValidCidr /\ ParseU32(SubnetParts[2]).v = 0) =>
        /\ parsed.kind = "ok"
        /\ parsed.ips # <<>>

\* C39: for every valid A.B.C.D/N, also a base with non-zero host bits and a
\* base near 255.255.255.255, base + i never overflows and every returned
\* address lies inside the CIDR block of the base.
C39_AddressesStayInsideTheBlock ==
    LET \* low bits of octet j (1 is the top octet) that are host bits of a /n block
        HostBitsOf(j, n) ==
            LET h == (32 - n) - 8 * (4 - j)
            IN IF h < 0 THEN 0 ELSE IF h > 8 THEN 8 ELSE h
        NetworkOf(o, n) == [j \in 1..4 |-> o[j] - (o[j] % Pow2(HostBitsOf(j, n)))]
    IN (spc # "call" /\ ValidCidr /\ ParseU32(SubnetParts[2]).v > 0) =>
        LET base == ParseIpv4(SubnetParts[1]).v
            n == ParseU32(SubnetParts[2]).v
        IN /\ parsed.kind = "ok"
           /\ \A k \in DOMAIN parsed.ips : NetworkOf(parsed.ips[k], n) = NetworkOf(base, n)

(***************************************************************************)
(* Claims about parse_ports and format_port_ranges (SpecPorts).            *)
(***************************************************************************)
\* C19: parse_ports returns a strictly ascending list without duplicates holding
\* exactly the ports its valid tokens name: each single port and every port of
\* each start-end range, both ends included.
C19_ParsePortsSortedAndDeduped ==
    LET parts == Split(ports_str, ",")
        \* the ports named by the valid tokens of the string
        NamedPorts == UNION {Range(PortsOfPart(parts[k])) : k \in DOMAIN parts}
    IN /\ (call = "parse_ports" /\ fpc = "done") =>
             /\ \A k \in 1..(Len(parsed_ports) - 1) : parsed_ports[k] < parsed_ports[k + 1]
             /\ Range(parsed_ports) = NamedPorts
       /\ PortsOfPart(<<"1", "-", "3">>) = <<1, 2, 3>>
       /\ PortsOfPart(<<"8", "0">>) = <<80>>

\* C19 witness: "22,80,22" was parsed to 22, 80.
C19_DuplicateTokenParsed ==
    /\ call = "parse_ports" /\ fpc = "done"
    /\ ports_str = <<"2", "2", ",", "8", "0", ",", "2", "2">>
    /\ parsed_ports = <<22, 80>>

\* C20: for a strictly ascending list, 65535 included, format_port_ranges returns
\* a string that parse_ports expands to the same list, with one entry per maximal
\* run of consecutive ports: start-end for a run of several, the number alone for
\* an isolated port.
C20_FormatThenParseIsIdentity ==
    LET \* number of maximal runs of consecutive ports in a strictly ascending list
        Runs(list) ==
            IF list = <<>> THEN 0
            ELSE 1 + Cardinality({k \in 1..(Len(list) - 1) : list[k + 1] # list[k] + 1})
    IN (call = "format_port_ranges" /\ fpc # "format") =>
        /\ fpc # "panicked"
        /\ fpc = "done" => parsed_ports = ports
        /\ LET entries == IF ports_str = <<>> THEN <<>> ELSE Split(ports_str, ",")
           IN /\ Len(entries) = Runs(ports)
              /\ \A k \in DOMAIN entries :
                    LET named == PortsOfPart(entries[k])
                    IN /\ named # <<>>
                       /\ \A j \in DOMAIN named : named[j] \in Range(ports)
                       /\ Len(named) > 1 <=> (\E m \in DOMAIN entries[k] : entries[k][m] = "-")
                       /\ (named[1] - 1) \notin Range(ports)
                       /\ (named[Len(named)] + 1) \notin Range(ports)

\* C20 witness: the list 1, 2, 3, 5, 65534, 65535 was written as
\* "1-3,5,65534-65535" and parsed back.
C20_RoundTripWith65535 ==
    /\ call = "format_port_ranges" /\ fpc = "done"
    /\ ports = <<1, 2, 3, 5, 65534, 65535>>
    /\ ports_str = <<"1", "-", "3", ",", "5", ",", "6", "5", "5", "3", "4", "-",
                     "6", "5", "5", "3", "5">>
    /\ parsed_ports = ports

(***************************************************************************)
(* Claims about the driver (SpecMain).                                     *)
(***************************************************************************)
\* C21: the driver exits with a non-zero status whenever a required input is
\* missing (--ports with any of --tcpscan, --udpscan, --service-detection,
\* --fingerprint; --protocols with --service-detection) or the target is invalid,
\* whatever hosts are alive, and with status zero otherwise.
C21_ExitStatusTellsFailure ==
    LET missing == \/ (cli.tcpscan \/ cli.udpscan \/ cli.service_detection \/ cli.fingerprint)
                      /\ ~cli.ports.some
                   \/ cli.service_detection /\ ~cli.protocols.some
        invalid == parse_subnet(Subnet(cli.ip), build).kind = "err"
    IN mpc = "exited" => (exit_code # 0 <=> (missing \/ invalid))

\* C22: on a configuration error (a bad CIDR, a missing --ports or --protocols)
\* the driver sends no probe at all: neither the ping sweep nor any later stage
\* has started.
C22_ConfigErrorSendsNothing ==
    LET missing == \/ (cli.tcpscan \/ cli.udpscan \/ cli.service_detection \/ cli.fingerprint)
                      /\ ~cli.ports.some
                   \/ cli.service_detection /\ ~cli.protocols.some
        invalid == parse_subnet(Subnet(cli.ip), build).kind = "err"
    IN (missing \/ invalid) => sent = 0 /\ probed = {}

\* C23: the ping sweep has returned, with every address of the target probed,
\* before any other stage runs; every address a later stage is run for is one the
\* ping sweep found alive; a literal IPv4 target is swept as that single address.
C23_StagesProbeOnlyLiveHosts ==
    /\ probed # {} =>
          /\ spc = "returned_ok"
          /\ sent = Len(parsed.ips)
          /\ mpc \notin {"subnet", "sweep", "inputs"}
    /\ \A p \in probed : p.ip \in Range(found)
    /\ (~Contains(cli.ip, <<"/">>) /\ ParseIpv4(cli.ip).ok /\ mpc \notin {"subnet", "sweep"}) =>
          /\ parsed.ips = <<ParseIpv4(cli.ip).v>>
          /\ sent = 1

\* C23 witness: a literal address was swept, found alive and run through all four stages.
C23_LiteralTargetThroughAllStages ==
    /\ mpc = "exited"
    /\ ~Contains(cli.ip, <<"/">>)
    /\ {p.stage : p \in probed} = {"fingerprint", "tcpscan", "udpscan", "service"}

\* C37: with --tcpscan or --udpscan and a port list, the (host, port) pairs
\* probed are exactly the live hosts times the ports named in --ports (for
\* --ports 22,80 only 22 and 80).  Lists holding port 65535 are left to C38.
C37_OnlyListedPortsScanned ==
    (mpc = "exited" /\ exit_code = 0 /\ live_hosts # <<>> /\ cli.ports.some
       /\ U16Max \notin Range(parse_ports(cli.ports.ports))) =>
        \A kind \in {"tcpscan", "udpscan"} :
            {t \in scanned : t.stage = kind} =
                IF cli[kind]
                THEN {[stage |-> kind, ip |-> h, port |-> p] :
                         h \in Range(live_hosts), p \in Range(parse_ports(cli.ports.ports))}
                ELSE {}

\* C38: for every accepted port list, also one holding 65535, max_port + 1 does
\* not overflow and every live host is probed on port 65535 when it was asked for.
C38_Port65535IsScanned ==
    (mpc = "exited" /\ exit_code # 1 /\ live_hosts # <<>> /\ cli.ports.some
       /\ U16Max \in Range(parse_ports(cli.ports.ports))) =>
        /\ exit_code = 0
        /\ \A kind \in {"tcpscan", "udpscan"} :
              cli[kind] =>
                 \A h \in Range(live_hosts) :
                     [stage |-> kind, ip |-> h, port |-> U16Max] \in scanned

(***************************************************************************)
(* Claims about service_scan (Spec).                                       *)
(***************************************************************************)
\* C24: service_scan(ip, Some(ports), protocols) returns exactly one result per
\* port the user supplied and none for any other port: as many results as
\* distinct ports supplied.
C24_OnlyUserPortsProbed ==
    (stage = "service" /\ pc = "done" /\ user_ports_arg.some) =>
        /\ {r.port : r \in Range(result.services)} = Range(user_ports_arg.ports)
        /\ Len(result.services) = Cardinality(Range(user_ports_arg.ports))

C26_OsFollowsTtl ==
    (lpc = "returned" /\ lcall.fn = "fingerprint_host") =>
        /\ lret.os = Just(IF lcall.ttl \in 60..70 THEN <<"L", "i", "n", "u", "x", "/", "U", "n", "i", "x">>
                          ELSE IF lcall.ttl \in 120..130 THEN <<"W", "i", "n", "d", "o", "w", "s">>
                          ELSE IF lcall.ttl \in 240..255 THEN <<"N", "e", "t", "w", "o", "r", "k", " ", "D", "e", "v", "i", "c", "e", "/", "R", "o", "u", "t", "e", "r">>
                          ELSE <<"U", "n", "k", "n", "o", "w", "n">>)
        /\ (lcall.ssh.ok /\ StartsWith(lcall.ssh.data, SSH_)) =>
              /\ lret.details # Nothing
              /\ Contains(lret.details[1], Trim(lcall.ssh.data))

\* C27: fingerprint_mac::fingerprint never panics: for every interface
\* configuration it returns a MacFingerprint, with the failure in its error field
\* when no MAC was found.
C27_MacFingerprintNeverPanics ==
    lcall.fn = "fingerprint_mac" =>
        /\ lpc # "panicked"
        /\ lpc = "returned" => (lret.mac = Nothing => lret.error # Nothing)

\* C28: for detect_ssh, detect_ftp, detect_smtp, detect_http and detect_dns,
\* detected is true exactly when error is None; the four TCP detectors carry a
\* banner exactly when detected; with nothing listening (the connect fails, or no
\* datagram comes back) detected is false and error is set.
C28_DetectedIffNoError ==
    (lpc = "returned" /\ lcall.fn \in {"detect_ssh", "detect_ftp", "detect_smtp",
                                       "detect_http", "detect_dns"}) =>
        /\ lret.detected <=> lret.error = Nothing
        /\ lcall.fn # "detect_dns" =>
              /\ lret.detected <=> lret.banner # Nothing
              /\ ~lcall.conn => ~lret.detected /\ lret.error # Nothing
        /\ lcall.fn = "detect_dns" =>
              (~lcall.recv.ok => ~lret.detected /\ lret.error # Nothing)

\* C28 witness: detect_ssh, its first read failed, found the banner on its second read.
C28_SshDetectedOnSecondRead ==
    /\ lpc = "returned" /\ lcall.fn = "detect_ssh"
    /\ lcall.conn /\ ~lcall.r1.ok
    /\ lret.detected /\ lret.banner = Just(lcall.r2.data) /\ lret.error = Nothing

\* C29: suggest_modules returns at most one suggestion per input service, in
\* input order, each carrying its input's port and service name, and none for a
\* service outside the table; for [ssh, http, microsoft-ds, ftp, mysql] it returns
\* exactly four: ssh_version, http_version, ms17_010_eternalblue, ftp_version.
C29_FourSuggestionsForTheFive ==
    (lpc = "returned" /\ lcall.fn = "suggest_modules") =>
        /\ Len(lret) <= Len(lcall.services)
        /\ \E at \in [DOMAIN lret -> DOMAIN lcall.services] :
              /\ \A i, j \in DOMAIN lret : i < j => at[i] < at[j]
              /\ \A i \in DOMAIN lret :
                    /\ lret[i].port = lcall.services[at[i]].port
                    /\ lret[i].service = lcall.services[at[i]].service
        /\ \A i \in DOMAIN lret : lret[i].service # <<"g", "o", "p", "h", "e", "r">>
        /\ Len(lcall.services) = 5 =>
              [i \in DOMAIN lret |-> lret[i].module] =
                  <<"auxiliary/scanner/ssh/ssh_version",
                    "auxiliary/scanner/http/http_version",
                    "exploit/windows/smb/ms17_010_eternalblue",
                    "auxiliary/scanner/ftp/ftp_version">>

\* C30: append_summary_to_csv writes exactly one row per distinct protocol that
\* appears in the protocol_failures of at least one result; its FailCount is the
\* number of results listing it and its Ports are exactly those results' ports.
C30_OneRowPerFailedProtocol ==
    (lpc = "returned" /\ lcall.fn = "append_summary_to_csv" /\ lret.ok) =>
        LET rows == SubSeq(lret.file, Len(lcall.file) + 2, Len(lret.file))
            Listing(name) ==
                SelectSeq(lcall.results, LAMBDA r : name \in Range(r.protocol_failures))
        IN /\ {rows[i].protocol : i \in DOMAIN rows} =
                 UNION {Range(r.protocol_failures) : r \in Range(lcall.results)}
           /\ \A i, j \in DOMAIN rows : rows[i].protocol = rows[j].protocol => i = j
           /\ \A i \in DOMAIN rows :
                 /\ rows[i].fail_count = Len(Listing(rows[i].protocol))
                 /\ rows[i].ports =
                       JoinWith([k \in DOMAIN Listing(rows[i].protocol) |->
                                   ToText(Listing(rows[i].protocol)[k].port)], <<",">>)

(***************************************************************************)
(* Further claims about the ping sweep (Spec).                             *)
(***************************************************************************)
\* C31: each address of a ping sweep goes PENDING -> SENT -> exactly one of
\* REPLIED, TIMED_OUT, ERROR: a probe that has ended ended in one of the three,
\* and only after its echo request was sent (so an ERROR is a receive error).
C31_TerminalOnlyAfterSent ==
    stage = "ping" =>
        \A i \in DOMAIN tasks :
            tasks[i].st = "done" =>
                /\ tasks[i].out.kind \in {"true", "false", "err"}
                /\ tasks[i].out.kind = "err" =>
                      tasks[i].out.msg.what = "Error receiving response"


(***************************************************************************)
(* Further claims about tcp_scan and udp_scan (Spec).                      *)
(***************************************************************************)
\* C40: tcp_scan / udp_scan yield exactly one record per (host, port), an
\* open_ports entry or an errors entry and never both, so that the two lists
\* together count |hosts| x |ports| entries; the hosts are scanned one after
\* another, no probe of a host existing before every probe of the hosts before
\* it was joined; and the entries stand in host order, then in ascending port
\* order, whatever the order in which the probes completed.
C40_OneRecordPerPairInScanOrder ==
    stage \in {"tcp", "udp"} =>
        LET HostPos(ip) == CHOOSE h \in DOMAIN hosts : hosts[h] = ip
            open == final.open_ports \o result.open_ports
            errs == final.errors \o result.errors
            \* the probes of the host being scanned that were joined
            joinedPorts == {tasks[k].item : k \in 1..joined}
            Recorded(h, p) ==
                {<<"open", k>> : k \in {j \in DOMAIN open : open[j] = <<hosts[h], p>>}}
                \cup {<<"err", k>> : k \in {j \in DOMAIN errs : errs[j][1] = hosts[h]
                                                                 /\ errs[j][2].port = p}}
            Failed(h) == {k \in DOMAIN errs : errs[k][1] = hosts[h] /\ errs[k][2].port = -1}
        IN \* the hosts before the current one are complete, the later ones untouched
           /\ Len(final.open_ports) + Len(final.errors) = (hostIdx - 1) * Len(items)
           /\ Len(result.open_ports) + Len(result.errors) = joined
           /\ \A h \in DOMAIN hosts :
                 LET done == IF h < hostIdx THEN Range(items)
                             ELSE IF h = hostIdx THEN joinedPorts ELSE {}
                 IN /\ \A p \in Range(items) \ done : Recorded(h, p) = {}
                    /\ \A p \in done : Cardinality(Recorded(h, p)) <= 1
                    /\ Cardinality(UNION {Recorded(h, p) : p \in done})
                          + Cardinality(Failed(h)) = Cardinality(done)
           /\ pc = "done" => Len(open) + Len(errs) = Len(hosts) * Len(items)
           \* host order, then ascending port
           /\ \A j, k \in DOMAIN open :
                 j < k => \/ HostPos(open[j][1]) < HostPos(open[k][1])
                          \/ open[j][1] = open[k][1] /\ open[j][2] < open[k][2]
           /\ \A j, k \in DOMAIN errs :
                 j < k => \/ HostPos(errs[j][1]) < HostPos(errs[k][1])
                          \/ /\ errs[j][1] = errs[k][1]
                             /\ (errs[j][2].port # -1 /\ errs[k][2].port # -1)
                                   => errs[j][2].port < errs[k][2].port

\* C40 witness: of three probes of one host the third completed while the
\* second was still running; the join loop has recorded the first and waits for
\* the second, the third outcome not yet recorded.
C40_LaterPortCompletedFirst ==
    /\ stage = "tcp" /\ pc = "join" /\ joined = 1
    /\ Len(tasks) = 3
    /\ tasks[2].st # "done"
    /\ tasks[3].st = "done" /\ tasks[3].out.kind = "open"
    /\ result.open_ports = <<<<hosts[hostIdx], 0>>>>
    /\ result.errors = <<>>

(***************************************************************************)
(* Further claims about the library functions (SpecLib, FairSpecLib).      *)
(***************************************************************************)

\* C32: fingerprint_mac::fingerprint returns mac = Some(m) only when m is the
\* sender hardware address of the first received ARP frame whose opcode is 2 and
\* whose sender protocol address is the target, every frame before it having
\* been skipped; every returned value has exactly one of mac and error set, and
\* vendor is always null.
C32_MacIsFirstMatchingReply ==
    (lcall # <<>> /\ lcall.fn = "fingerprint_mac" /\ lpc = "returned") =>
        /\ lret.vendor = Nothing
        /\ (lret.mac # Nothing) # (lret.error # Nothing)
        /\ lret.mac # Nothing =>
              /\ frames # <<>>
              /\ LET last == frames[Len(frames)]
                 IN /\ last.ok /\ last.eth = "arp" /\ last.arp
                    /\ last.op = 2
                    /\ last.spa = "ip"
                    /\ lret.mac = Just(last.sha)
              /\ \A k \in 1..(Len(frames) - 1) :
                    ~(frames[k].ok /\ frames[k].eth = "arp" /\ frames[k].arp
                      /\ frames[k].op = 2 /\ frames[k].spa = "ip")

\* C32 witness: a reply from another sender was skipped and the target's reply
\* then gave the MAC.
C32_ReplyAfterSkippedFrame ==
    /\ lcall # <<>> /\ lcall.fn = "fingerprint_mac" /\ lpc = "returned"
    /\ Len(frames) = 2
    /\ frames[1].op = 2 /\ frames[1].spa = "other" /\ frames[1].sha = "m1"
    /\ lret.mac = Just("m2")


\* C33: once the ARP request is sent, fingerprint always eventually returns,
\* whatever frames arrive and also when no frame ever arrives.
C33_FingerprintEventuallyReturns ==
    (lpc = "loop") ~> (lpc = "returned")


(***************************************************************************)
(* Further claims about detect_service (SpecDetect).                       *)
(***************************************************************************)

\* C34: the HTTPS probe reports "HTTPS" whenever the TCP connect and the TLS
\* handshake succeed, without needing application data, and records an HTTPS
\* failure only when the connect or the handshake failed or timed out.
C34_HandshakeAloneIsHttps ==
    (generic = 0 /\ attempted # <<>> /\ attempted[Len(attempted)] = "Https") =>
        LET established == \E k \in DOMAIN io : io[k].ev = "handshake" /\ io[k].ok
        IN IF established
           THEN dpc = "done" /\ ret.service = Just(Service("HTTPS"))
           ELSE dpc = "loop"


\* C36: the SSH probe sends nothing after connecting and reads once; it sends
\* a newline only when that first read came back empty (no bytes, an error or a
\* timeout), at most one newline, and then reads exactly once more; it reports
\* SSH exactly when one of the reads begins with "SSH-", and never sends the
\* newline after a first read that matched.
C36_NewlineOnlyAfterEmptyRead ==
    (generic = 0 /\ attempted # <<>> /\ attempted[Len(attempted)] = "Ssh"
       /\ io[1].ok) =>
        LET writes == {k \in DOMAIN io : io[k].ev = "write"}
            reads == {k \in DOMAIN io : io[k].ev = "read"}
            matched(k) == io[k].ok /\ StartsWith(io[k].data, SSH_)
        IN /\ io[2].ev = "read"
           /\ Cardinality(writes) <= 1
           /\ writes # {} =>
                 /\ writes = {3} /\ io[3].data = NEWLINE
                 /\ reads = {2, 4} /\ Len(io) = 4
                 /\ ~io[2].ok \/ io[2].data = <<>>
           /\ writes = {} => Len(io) = 2
           /\ matched(2) => writes = {}
           /\ (dpc = "done" /\ ret.service = Just(Service("SSH")))
                 <=> \E k \in reads : matched(k)

(***************************************************************************)
(* Claims about the standalone detectors (SpecLib).                        *)
(***************************************************************************)

\* C35: detect_dns::detect reports detected exactly when a reply was received
\* within the read timeout and its first two bytes are 0x12 0x34; a reply with
\* another transaction id, a reply shorter than two bytes and no reply are all
\* non-detection.
C35_DnsDetectedIffTransactionIdEchoed ==
    (lcall # <<>> /\ lcall.fn = "detect_dns" /\ lpc = "returned") =>
        (lret.detected <=>
            /\ lcall.bind
            /\ lcall.recv.ok
            /\ Len(lcall.recv.data) >= 2
            /\ lcall.recv.data[1] = "0x12"
            /\ lcall.recv.data[2] = "0x34")

====
